---- MODULE Spec2Model ----
(***************************************************************************)
(* State-machine model of the nextlib-api scheduling core: the Reservation *)
(* collection and its lifecycle routes, the UsageHistory sessions and the  *)
(* users' remaining_time balance.                                          *)
(*                                                                         *)
(* Documents are records; a collection is a sequence whose index is the    *)
(* document _id.  Wall-clock times are <<hours, minutes>> pairs standing   *)
(* for the "HH:MM" strings of the code, dates are day numbers and instants *)
(* (new Date()) are minutes since day 0.                                   *)
(***************************************************************************)
EXTENDS Integers, Sequences, FiniteSets, Bags, TLC

VARIABLES
    reservations,   \* the Reservation collection
    inflight,       \* create requests between their conflict check and save
    sessions,       \* the UsageHistory collection
    remaining_time, \* User.remaining_time of every user
    resp,           \* the last response sent: [op, code]
    closing,        \* end-session requests between their find and their response
    schedules,      \* the SubjectScheduler collection
    view,           \* the body of the last response, of a probe or conflict check
    configs,        \* the AcademicConfig collection
    triggers,       \* updateActiveSemesterForActiveConfig calls in progress
    clock,          \* the current calendar day
    reservation_number, \* Reservation.reservation_number, by document _id
    generating,     \* create requests between generateReservationNumber and save
    admin_reset,    \* the reset fields of every Admin document
    password,       \* the password of every account
    forgetting,     \* admin forgot-password requests between findOne and save
    resetting,      \* admin reset-password requests between findOne and save
    mails,          \* the mails sent to every account: [credential, at]
    minute,         \* the current instant, in minutes
    starting,       \* start-session requests between their checks and the create
    yearLevel,      \* User.yearLevel of every user
    user_status     \* User.status of every user

vars == <<reservations, inflight, sessions, remaining_time, resp,
          closing, schedules, view, configs, triggers, clock,
          reservation_number, generating,
          admin_reset, password, forgetting, resetting, mails, minute, starting,
          yearLevel, user_status>>

\* The reservation numbers; SpecNumber alone follows them, the other
\* specifications take every generated number to be new.
numberVars == <<reservation_number, generating>>

\* The password-reset state; only the routes of /v1/auth write it.
authVars == <<admin_reset, password, forgetting, resetting, mails, minute>>

\* The year level and the status of the users; only the promotion writes them.
studentVars == <<yearLevel, user_status>>

\* The variables the reservation, session and probe routes never write.
academicVars == <<configs, triggers, clock, numberVars, authVars, starting, studentVars>>

\* ---------------------------------------------------------------- bounds
\* Reservations stored or being created, in Spec and in SpecLifecycle.
MaxRes == 2
MaxLifecycleRes == 1
\* Reservations and class schedules stored in SpecProbe.
MaxProbeRes == 2
MaxSchedules == 2
\* End-session requests in progress at once, in SpecLifecycle and in SpecQuota.
MaxLifecycleClosing == 1
MaxClosing == 2
\* Reservations stored in SpecQuota.
MaxQuotaRes == 2
\* SpecSemester: configurations stored, calls of the semester update in
\* progress at once, and the last calendar day.
MaxConfigs == 1
MaxTriggers == 2
MaxClock == 5
\* SpecNumber: reservations stored or being created, and the size of the
\* space generateReservationNumber draws from.
MaxNumberRes == 3
NumberSpace == 3
\* Reservations stored in SpecEdit.
MaxEditRes == 1
\* Reservations stored in SpecBalance.
MaxBalanceRes == 1

\* ------------------------------------------------------ principals, resources
Users == {"s1", "f1"}
Admins == {"a1"}
Actors == Users \cup Admins

user_type == [u \in Users |-> IF u = "f1" THEN "faculty" ELSE "student"]

Laboratories == {"L1", "L2"}
Computers == {"PC1"}
computerLab == [c \in Computers |-> "L1"]

NoId == "null"
NoDate == -1
NoTime == <<>>

ReservationTypes == {"laboratory", "computer"}
Statuses == {"pending", "approved", "rejected", "active", "completed", "cancelled"}
UsageStatuses == {"active", "completed", "interrupted", "overtime"}

\* ------------------------------------------------------------ input domains
Dates == 1..2
TimeStrs == {<<8, 0>>, <<9, 0>>, <<10, 0>>}
Nows == {1 * 1440 + 9 * 60}

\* ---------------------------------------------------------- authentication
\* authMiddleware: req.userType is "admin" for an admin token and the user's
\* own user_type ("student" or "faculty") for a user token.
userTypeOf(actor) == IF actor \in Admins THEN "admin" ELSE user_type[actor]

\* req.user.user_type: undefined on an Admin document.
reqUserUserType(actor) == IF actor \in Admins THEN "undefined" ELSE user_type[actor]

\* adminAuthMiddleware lets only admin tokens through.
adminAuthMiddleware(actor) == actor \in Admins

\* ------------------------------------------------------------- time helpers
isValidMilitaryTime(t) == Len(t) = 2 /\ t[1] \in 0..23 /\ t[2] \in 0..59

timeToMinutes(t) == t[1] * 60 + t[2]

minutesToTime(m) == <<m \div 60, m % 60>>

combineDateAndTime(date, t) == date * 1440 + timeToMinutes(t)

getTZCurrentTimeString(now) == <<(now % 1440) \div 60, now % 60>>

\* ---------------------------------------------------------- conflict check
\* checkReservationConflicts with the status filter narrowed to "approved":
\* a hold that is already in use no longer blocks.
checkReservationConflictsApprovedOnly(res, reservationDate, startTime, duration, reservationType, excludeReservationId) ==
    LET requestedStartMinutes == timeToMinutes(startTime)
        requestedEndMinutes == requestedStartMinutes + duration
    IN  { i \in DOMAIN res :
            /\ res[i].reservation_type = reservationType
            /\ res[i].status = "approved"
            /\ ~res[i].isDeleted
            /\ res[i].reservation_date = reservationDate
            /\ i # excludeReservationId
            /\ requestedStartMinutes < timeToMinutes(res[i].end_time)
            /\ timeToMinutes(res[i].start_time) < requestedEndMinutes }

\* The documents of `res` the conflict query selects and the overlap filter
\* keeps.  The query filters on reservation_type, status, isDeleted and the
\* calendar day; it names neither laboratory_id nor computer_id.
checkReservationConflicts(res, reservationDate, startTime, duration, reservationType, excludeReservationId) ==
    LET requestedStartMinutes == timeToMinutes(startTime)
        requestedEndMinutes == requestedStartMinutes + duration
    IN  { i \in DOMAIN res :
            /\ res[i].reservation_type = reservationType
            /\ res[i].status \in {"approved", "active"}
            /\ ~res[i].isDeleted
            /\ res[i].reservation_date = reservationDate
            /\ i # excludeReservationId
            /\ requestedStartMinutes < timeToMinutes(res[i].end_time)
            /\ timeToMinutes(res[i].start_time) < requestedEndMinutes }

\* ------------------------------------------------------ Reservation pre-save
\* reservationPreSave without the test of the start against the current time.
reservationPreSaveAnyStart(doc, isNew, now) ==
    IF doc.isDeleted THEN "ok"
    ELSE IF timeToMinutes(doc.end_time) <= timeToMinutes(doc.start_time)
         THEN "end_before_start"
    ELSE LET calculatedDuration == timeToMinutes(doc.end_time) - timeToMinutes(doc.start_time)
             diff == doc.duration - calculatedDuration
         IN  IF doc.duration # 0 /\ (IF diff < 0 THEN -diff ELSE diff) > 1
             THEN "duration_mismatch"
             ELSE "ok"

\* The error of the pre('save') hook of the Reservation schema, "ok" if none.
reservationPreSave(doc, isNew, now) ==
    IF doc.isDeleted THEN "ok"
    ELSE IF isNew /\ combineDateAndTime(doc.reservation_date, doc.start_time) < now
         THEN "past"
    ELSE IF timeToMinutes(doc.end_time) <= timeToMinutes(doc.start_time)
         THEN "end_before_start"
    ELSE LET calculatedDuration == timeToMinutes(doc.end_time) - timeToMinutes(doc.start_time)
             diff == doc.duration - calculatedDuration
         IN  IF doc.duration # 0 /\ (IF diff < 0 THEN -diff ELSE diff) > 1
             THEN "duration_mismatch"
             ELSE "ok"

\* A response whose body the model does not keep.
NoView == [op |-> "none"]

Respond(op, code) == resp' = [op |-> op, code |-> code] /\ view' = NoView

\* ------------------------------------------------------ POST / (create)
Request(actor, reservation_type, rid, date, start_time, end_time) ==
    [actor |-> actor, reservation_type |-> reservation_type, rid |-> rid,
     reservation_date |-> date, start_time |-> start_time, end_time |-> end_time]

\* The response of the validation part of the handler, 0 when it passes.
createValidate(req) ==
    IF ~isValidMilitaryTime(req.start_time) \/ ~isValidMilitaryTime(req.end_time) THEN 400
    ELSE IF timeToMinutes(req.end_time) <= timeToMinutes(req.start_time) THEN 400
    ELSE IF req.reservation_type \notin ReservationTypes THEN 400
    ELSE IF req.reservation_type = "computer" /\ req.rid \notin Computers THEN 404
    ELSE IF req.reservation_type = "laboratory" /\ req.rid \notin Laboratories THEN 404
    ELSE 0

calculatedDurationOf(req) == timeToMinutes(req.end_time) - timeToMinutes(req.start_time)

\* Whether the handler runs the conflict check for this request.
conflictChecked(req) ==
    req.reservation_type = "laboratory" /\ reqUserUserType(req.actor) = "faculty"

\* createStatus with the reservation_type test of the faculty branch dropped.
createStatusAnyFaculty(req) ==
    IF userTypeOf(req.actor) = "admin" THEN "approved"
    ELSE IF reqUserUserType(req.actor) = "faculty" THEN "approved"
    ELSE "pending"

createStatus(req) ==
    IF userTypeOf(req.actor) = "admin" THEN "approved"
    ELSE IF reqUserUserType(req.actor) = "faculty" /\ req.reservation_type = "laboratory"
         THEN "approved"
    ELSE "pending"

createApprovedBy(req) ==
    IF userTypeOf(req.actor) = "admin" THEN req.actor ELSE NoId

newReservation(req) ==
    [user_id |-> req.actor,
     reservation_type |-> req.reservation_type,
     computer_id |-> IF req.reservation_type = "computer" THEN req.rid ELSE NoId,
     laboratory_id |-> IF req.reservation_type = "laboratory" THEN req.rid ELSE NoId,
     reservation_date |-> req.reservation_date,
     start_time |-> req.start_time,
     end_time |-> req.end_time,
     purpose |-> "purpose",
     notes |-> IF reqUserUserType(req.actor) = "faculty" /\ req.reservation_type = "laboratory"
                  /\ createStatus(req) = "approved"
               THEN "[Auto-approved: Faculty laboratory reservation]"
               ELSE NoId,
     duration |-> calculatedDurationOf(req),
     status |-> createStatus(req),
     approved_by |-> createApprovedBy(req),
     started_at |-> NoDate,
     completed_at |-> NoDate,
     isDeleted |-> FALSE]

\* The validators of the Reservation schema, which run before the pre('save')
\* hook: the two time formats, the required purpose, the duration bounds and
\* the status enum.
reservationValidate(doc) ==
    /\ isValidMilitaryTime(doc.start_time)
    /\ isValidMilitaryTime(doc.end_time)
    /\ doc.purpose # ""
    /\ doc.duration >= 1 /\ doc.duration <= 480
    /\ doc.status \in Statuses

\* reservation.save() of a new document at instant `now`, and the response.
saveNew(req, now) ==
    IF reservationValidate(newReservation(req))
       /\ reservationPreSave(newReservation(req), TRUE, now) = "ok"
    THEN /\ reservations' = Append(reservations, newReservation(req))
         /\ Respond("create", 201)
    ELSE /\ reservations' = reservations
         /\ Respond("create", 500)

\* The handler up to and including the conflict check.  A request that is not
\* conflict-checked reads no reservation before its save, so its save is part
\* of the same step; a checked request that passes waits in `inflight`.
CreateReservation(req, now) ==
    /\ IF createValidate(req) # 0
       THEN /\ Respond("create", createValidate(req))
            /\ UNCHANGED <<reservations, inflight>>
       ELSE IF conflictChecked(req)
       THEN IF checkReservationConflicts(reservations, req.reservation_date, req.start_time,
                    calculatedDurationOf(req), req.reservation_type, 0) # {}
            THEN /\ Respond("create", 409)
                 /\ UNCHANGED <<reservations, inflight>>
            ELSE /\ inflight' = inflight (+) SetToBag({req})
                 /\ UNCHANGED <<reservations, resp, view>>
       ELSE /\ saveNew(req, now)
            /\ UNCHANGED inflight
    /\ UNCHANGED <<sessions, remaining_time, closing, schedules, academicVars>>

\* The rest of a conflict-checked request: generate the number, save, respond.
CreateSave(req, now) ==
    /\ BagIn(req, inflight)
    /\ inflight' = inflight (-) SetToBag({req})
    /\ saveNew(req, now)
    /\ UNCHANGED <<sessions, remaining_time, closing, schedules, academicVars>>

\* --------------------------------------------------------- lifecycle routes
\* Reservation.findOne({_id: id, isDeleted: false})
found(id) == id \in DOMAIN reservations /\ ~reservations[id].isDeleted

Refuse(op, code) ==
    /\ Respond(op, code)
    /\ UNCHANGED <<reservations, inflight, sessions, remaining_time, closing,
                   schedules, academicVars>>

\* reservation.save() of an existing document: the pre('save') hook runs with
\* isNew false; a hook error is caught and answered 500.
Store(op, id, doc) ==
    IF reservationValidate(doc) /\ reservationPreSave(doc, FALSE, NoDate) = "ok"
    THEN /\ reservations' = [reservations EXCEPT ![id] = doc]
         /\ Respond(op, 200)
         /\ UNCHANGED <<inflight, sessions, remaining_time, closing,
                        schedules, academicVars>>
    ELSE Refuse(op, 500)

\* PATCH /:id/status
UpdateStatus(actor, id, status, now) ==
    IF ~adminAuthMiddleware(actor) THEN Refuse("status", 403)
    ELSE IF status \notin Statuses THEN Refuse("status", 400)
    ELSE IF ~found(id) THEN Refuse("status", 404)
    ELSE Store("status", id,
            [reservations[id] EXCEPT
                !.status = status,
                !.approved_by = IF status \in {"approved", "rejected"} THEN actor ELSE @,
                !.started_at = IF status = "active" THEN now ELSE @,
                !.completed_at = IF status = "completed" THEN now ELSE @])

\* PATCH /:id/approve
Approve(actor, id) ==
    IF ~adminAuthMiddleware(actor) THEN Refuse("approve", 403)
    ELSE IF ~found(id) THEN Refuse("approve", 404)
    ELSE IF reservations[id].status # "pending" THEN Refuse("approve", 400)
    ELSE Store("approve", id,
            [reservations[id] EXCEPT !.status = "approved", !.approved_by = actor])

\* PATCH /:id/reject
Reject(actor, id) ==
    IF ~adminAuthMiddleware(actor) THEN Refuse("reject", 403)
    ELSE IF ~found(id) THEN Refuse("reject", 404)
    ELSE IF reservations[id].status # "pending" THEN Refuse("reject", 400)
    ELSE Store("reject", id,
            [reservations[id] EXCEPT !.status = "rejected", !.approved_by = actor,
                                     !.notes = NoId])

\* PATCH /:id/start
Start(actor, id, now) ==
    IF ~adminAuthMiddleware(actor) THEN Refuse("start", 403)
    ELSE IF ~found(id) THEN Refuse("start", 404)
    ELSE IF reservations[id].status # "approved" THEN Refuse("start", 400)
    ELSE Store("start", id,
            [reservations[id] EXCEPT !.status = "active", !.started_at = now])

\* PATCH /:id/complete
Complete(actor, id, now) ==
    IF ~adminAuthMiddleware(actor) THEN Refuse("complete", 403)
    ELSE IF ~found(id) THEN Refuse("complete", 404)
    ELSE IF reservations[id].status \notin {"approved", "active"} THEN Refuse("complete", 400)
    ELSE Store("complete", id,
            [reservations[id] EXCEPT !.status = "completed", !.completed_at = now])

\* PATCH /:id/cancel with the `notes` of the body, NoId for none.
CancelNotes(actor, id, notes) ==
    IF ~found(id) THEN Refuse("cancel", 404)
    ELSE IF userTypeOf(actor) = "user" /\ reservations[id].user_id # actor
         THEN Refuse("cancel", 403)
    ELSE IF reservations[id].status \in {"completed", "cancelled"} THEN Refuse("cancel", 400)
    ELSE Store("cancel", id,
            [reservations[id] EXCEPT !.status = "cancelled",
                                     !.notes = IF notes # NoId THEN notes ELSE @])

\* PATCH /:id/cancel with an empty body.
Cancel(actor, id) == CancelNotes(actor, id, NoId)

\* A field the body of PATCH /:id leaves out.
Undefined == "undefined"
NoDuration == -2

\* PATCH /:id: purpose, notes, duration and reservation_date, each optional.
UpdateReservation(actor, id, purpose, notes, duration, reservation_date) ==
    IF ~found(id) THEN Refuse("update", 404)
    ELSE IF duration # NoDuration /\ (duration < 1 \/ duration > 480)
         THEN Refuse("update", 400)
    ELSE Store("update", id,
            [reservations[id] EXCEPT
                !.purpose = IF purpose # Undefined THEN purpose ELSE @,
                !.notes = IF notes = Undefined THEN @ ELSE IF notes = "" THEN NoId ELSE notes,
                !.duration = IF duration # NoDuration THEN duration ELSE @,
                !.reservation_date = IF reservation_date # NoDate THEN reservation_date ELSE @])

\* DELETE /:id as a removal of the document: the collection keeps its other
\* documents and loses the last one when that is the target.
DeleteHard(actor, id) ==
    IF ~found(id) THEN Refuse("delete", 404)
    ELSE /\ reservations' = [k \in 1..(Len(reservations) - 1) |->
                                IF k < id THEN reservations[k] ELSE reservations[k + 1]]
         /\ Respond("delete", 200)
         /\ UNCHANGED <<inflight, sessions, remaining_time, closing, schedules, academicVars>>

\* DELETE /:id
Delete(actor, id) ==
    IF ~found(id) THEN Refuse("delete", 404)
    ELSE Store("delete", id, [reservations[id] EXCEPT !.isDeleted = TRUE])

\* ------------------------------------------------------------ usage sessions
\* UsageHistory.findOne({reservation_id, isDeleted: false})
existingSession(reservation_id) ==
    \E k \in DOMAIN sessions :
        sessions[k].reservation_id = reservation_id /\ ~sessions[k].isDeleted

\* UsageHistory.createFromReservation: the new document.
createFromReservation(reservation_id, admin_id, time_in, now) ==
    [reservation_id |-> reservation_id,
     user_id |-> reservations[reservation_id].user_id,
     time_in |-> IF time_in # NoTime THEN time_in ELSE getTZCurrentTimeString(now),
     time_out |-> NoTime,
     duration |-> 0,
     status |-> "active",
     approved_by |-> admin_id,
     isDeleted |-> FALSE]

\* POST /usage-history/start-session
StartSession(actor, reservation_id, time_in, now) ==
    IF time_in # NoTime /\ ~isValidMilitaryTime(time_in) THEN Refuse("start-session", 400)
    ELSE IF ~found(reservation_id) THEN Refuse("start-session", 404)
    ELSE IF reservations[reservation_id].status # "approved" THEN Refuse("start-session", 400)
    ELSE IF reservations[reservation_id].reservation_type # "computer"
         THEN Refuse("start-session", 400)
    ELSE IF existingSession(reservation_id) THEN Refuse("start-session", 400)
    ELSE /\ sessions' = Append(sessions, createFromReservation(reservation_id, actor, time_in, now))
         /\ reservations' = [reservations EXCEPT ![reservation_id].status = "active"]
         /\ Respond("start-session", 201)
         /\ UNCHANGED <<inflight, remaining_time, closing, schedules, academicVars>>

\* POST /usage-history/start-session up to its last read: the validation, the
\* reservation found and tested, and UsageHistory.findOne for a session of the
\* reservation.  A request that passes is left waiting for its create.
StartSessionFind(actor, reservation_id, time_in, now) ==
    IF time_in # NoTime /\ ~isValidMilitaryTime(time_in) THEN Refuse("start-session", 400)
    ELSE IF ~found(reservation_id) THEN Refuse("start-session", 404)
    ELSE IF reservations[reservation_id].status # "approved" THEN Refuse("start-session", 400)
    ELSE IF reservations[reservation_id].reservation_type # "computer"
         THEN Refuse("start-session", 400)
    ELSE IF existingSession(reservation_id) THEN Refuse("start-session", 400)
    ELSE /\ starting' = starting (+) SetToBag({[actor |-> actor, reservation_id |-> reservation_id,
                                                time_in |-> time_in, now |-> now]})
         /\ UNCHANGED <<reservations, inflight, sessions, remaining_time, resp, view, closing,
                        schedules, configs, triggers, clock, numberVars, authVars,
                        studentVars>>

\* The writes of start-session: createFromReservation saves the new session,
\* reservation.save() stores the status "active", and 201 is answered.
StartSessionCreate(s) ==
    /\ starting' = starting (-) SetToBag({s})
    /\ sessions' = Append(sessions,
                          createFromReservation(s.reservation_id, s.actor, s.time_in, s.now))
    /\ reservations' = [reservations EXCEPT ![s.reservation_id].status = "active"]
    /\ Respond("start-session", 201)
    /\ UNCHANGED <<inflight, remaining_time, closing, schedules,
                   configs, triggers, clock, numberVars, authVars, studentVars>>

\* The save of a UsageHistory document: schema validation, then the pre('save')
\* hook.  The saved document, or the document unchanged when validation fails.
usageValid(doc) ==
    /\ doc.status \in UsageStatuses
    /\ doc.time_out # NoTime =>
          /\ isValidMilitaryTime(doc.time_out)
          /\ timeToMinutes(doc.time_out) > timeToMinutes(doc.time_in)

usagePreSave(doc) ==
    IF doc.time_out # NoTime
    THEN [doc EXCEPT
            !.duration = timeToMinutes(doc.time_out) - timeToMinutes(doc.time_in),
            !.status = IF doc.status = "active" THEN "completed" ELSE @]
    ELSE doc

\* "HH:MM:SS" balance to minutes; Math.round(seconds / 60).
parseTimeToMinutes(t) ==
    IF t = NoTime THEN 0
    ELSE t[1] * 60 + t[2] + (IF t[3] >= 30 THEN 1 ELSE 0)

\* Minutes to "HH:MM:SS"; the argument is a whole number of minutes.
minutesToTimeString(totalMinutes) ==
    LET a == IF totalMinutes < 0 THEN -totalMinutes ELSE totalMinutes
    IN  <<a \div 60, a % 60, 0>>

Max(a, b) == IF a >= b THEN a ELSE b

\* The test that guards the debit: user && user.remaining_time && duration > 0.
\* `user` is the balance User.findById returned, NoTime for no user or no balance.
debits(user, duration) == user # NoTime /\ duration > 0

\* newRemainingTime without the Math.max(0, ...) floor.
newRemainingTimeUnfloored(user, duration) ==
    minutesToTimeString(parseTimeToMinutes(user) - duration)

\* newRemainingTime: the balance written after a session of `duration` minutes,
\* computed from the balance `user` the handler read.
newRemainingTime(user, duration) ==
    minutesToTimeString(Max(0, parseTimeToMinutes(user) - duration))

\* An end-session request between two of its awaits: the session _id, the
\* usageHistory document it holds, the await it waits for and the balance it
\* read from the User collection.
closeRequest(id, doc, pc, user) == [id |-> id, doc |-> doc, pc |-> pc, user |-> user]

advance(c, d) == closing' = (closing (-) SetToBag({c})) (+) SetToBag({d})

\* PATCH /usage-history/:id/end-session, up to `await usageHistory.save()`:
\* the findOne, the status test and the time_out test.
EndSession(actor, id, time_out, status, now) ==
    IF ~(id \in DOMAIN sessions /\ ~sessions[id].isDeleted) THEN Refuse("end-session", 404)
    ELSE IF sessions[id].status # "active" THEN Refuse("end-session", 400)
    ELSE IF time_out # NoTime /\ ~isValidMilitaryTime(time_out) THEN Refuse("end-session", 400)
    ELSE LET doc == [sessions[id] EXCEPT
                        !.time_out = IF time_out # NoTime THEN time_out
                                     ELSE getTZCurrentTimeString(now),
                        !.status = status]
         IN  /\ closing' = closing (+) SetToBag({closeRequest(id, doc, "save", NoTime)})
             /\ UNCHANGED <<reservations, inflight, sessions, remaining_time, resp, view,
                            schedules, academicVars>>

\* usageHistory.save(): validation and the pre('save') hook, then the write; a
\* validation error is caught and answered 500.
EndSessionSave(c) ==
    /\ BagIn(c, closing) /\ c.pc = "save"
    /\ IF ~usageValid(c.doc)
       THEN /\ closing' = closing (-) SetToBag({c})
            /\ Respond("end-session", 500)
            /\ UNCHANGED sessions
       ELSE /\ sessions' = [sessions EXCEPT ![c.id] = usagePreSave(c.doc)]
            /\ advance(c, closeRequest(c.id, usagePreSave(c.doc), "findById", NoTime))
            /\ UNCHANGED <<resp, view>>
    /\ UNCHANGED <<reservations, inflight, remaining_time, schedules, academicVars>>

\* User.findById(usageHistory.user_id) and the test that guards the debit.
EndSessionFindUser(c) ==
    /\ BagIn(c, closing) /\ c.pc = "findById"
    /\ LET user == IF c.doc.user_id \in Users THEN remaining_time[c.doc.user_id] ELSE NoTime
       IN  advance(c, closeRequest(c.id, c.doc,
                    IF debits(user, c.doc.duration) THEN "findByIdAndUpdate" ELSE "complete",
                    user))
    /\ UNCHANGED <<reservations, inflight, sessions, remaining_time, resp, view,
                   schedules, academicVars>>

\* User.findByIdAndUpdate(usageHistory.user_id, {remaining_time: newRemainingTime})
EndSessionUpdateUser(c) ==
    /\ BagIn(c, closing) /\ c.pc = "findByIdAndUpdate"
    /\ remaining_time' = [remaining_time EXCEPT
            ![c.doc.user_id] = newRemainingTime(c.user, c.doc.duration)]
    /\ advance(c, closeRequest(c.id, c.doc, "complete", c.user))
    /\ UNCHANGED <<reservations, inflight, sessions, resp, view, schedules, academicVars>>

\* Reservation.findByIdAndUpdate(usageHistory.reservation_id, {status: "completed"})
\* and the response.
EndSessionComplete(c) ==
    /\ BagIn(c, closing) /\ c.pc = "complete"
    /\ reservations' = [reservations EXCEPT ![c.doc.reservation_id].status = "completed"]
    /\ closing' = closing (-) SetToBag({c})
    /\ Respond("end-session", 200)
    /\ UNCHANGED <<inflight, sessions, remaining_time, schedules, academicVars>>

\* ------------------------------------------------------- class schedules
\* A timeslot "HH:MM-HH:MM" is the pair of its two times; parseTimeslot gives
\* the minutes of both.
parseTimeslot(timeslot) == <<timeToMinutes(timeslot[1]), timeToMinutes(timeslot[2])>>

\* isOverlap of the class-schedule routes, with inclusive bounds.
isOverlapInclusive(ts1, ts2) ==
    /\ parseTimeslot(ts1)[1] <= parseTimeslot(ts2)[2]
    /\ parseTimeslot(ts2)[1] <= parseTimeslot(ts1)[2]

\* isOverlap of the class-schedule routes.
isOverlap(ts1, ts2) ==
    /\ parseTimeslot(ts1)[1] < parseTimeslot(ts2)[2]
    /\ parseTimeslot(ts2)[1] < parseTimeslot(ts1)[2]

\* Days between two occurrences of a recurrence; a month is taken as 30 days.
repeatStep(repeatInterval) ==
    IF repeatInterval = "daily" THEN 1
    ELSE IF repeatInterval = "weekly" THEN 7
    ELSE IF repeatInterval = "monthly" THEN 30
    ELSE 0

\* The dates of the occurrences of a recurring schedule.
datesToCheck(date, repeatInterval, repeatEndDate) ==
    IF repeatStep(repeatInterval) = 0
    THEN IF date <= repeatEndDate THEN {date} ELSE {}
    ELSE { d \in date..repeatEndDate : (d - date) % repeatStep(repeatInterval) = 0 }

\* SubjectScheduler.find({date: {$gte: startOfDay, $lte: endOfDay}})
schedulesOn(date) == { k \in DOMAIN schedules : schedules[k].date = date }

newSchedule(date, timeslot, isRepeat, repeatInterval, repeatEndDate) ==
    [date |-> date, timeslot |-> timeslot, isRepeat |-> isRepeat,
     repeatInterval |-> repeatInterval, repeatEndDate |-> repeatEndDate]

RECURSIVE insertMany(_, _, _, _, _)
\* SubjectScheduler.insertMany: one document per date, in date order.
insertMany(coll, dates, timeslot, repeatInterval, repeatEndDate) ==
    IF dates = {} THEN coll
    ELSE LET d == CHOOSE x \in dates : \A y \in dates : x <= y
         IN  insertMany(Append(coll, newSchedule(d, timeslot, TRUE, repeatInterval, repeatEndDate)),
                        dates \ {d}, timeslot, repeatInterval, repeatEndDate)

\* POST /subject-scheduler that checks and stores the occurrences date by date:
\* the occurrences before the first overlapping date are stored.
CreateSchedulePerDate(date, timeslot, isRepeat, repeatInterval, repeatEndDate) ==
    /\ IF isRepeat /\ repeatInterval # NoId /\ repeatEndDate # NoDate
       THEN LET dates == datesToCheck(date, repeatInterval, repeatEndDate)
                taken == { d \in dates :
                             \E k \in schedulesOn(d) : isOverlap(timeslot, schedules[k].timeslot) }
            IN  /\ schedules' = insertMany(schedules,
                                    { d \in dates : \A c \in taken : d < c },
                                    timeslot, repeatInterval, repeatEndDate)
                /\ Respond("create-schedule", IF taken = {} THEN 201 ELSE 400)
       ELSE IF \E k \in schedulesOn(date) : isOverlap(timeslot, schedules[k].timeslot)
            THEN Respond("create-schedule", 400) /\ UNCHANGED schedules
            ELSE /\ schedules' = Append(schedules, newSchedule(date, timeslot, isRepeat, NoId, NoDate))
                 /\ Respond("create-schedule", 201)
    /\ UNCHANGED <<reservations, inflight, sessions, remaining_time, closing,
                   academicVars>>

\* POST /subject-scheduler
CreateSchedule(date, timeslot, isRepeat, repeatInterval, repeatEndDate) ==
    /\ IF isRepeat /\ repeatInterval # NoId /\ repeatEndDate # NoDate
       THEN IF \E d \in datesToCheck(date, repeatInterval, repeatEndDate) :
                  \E k \in schedulesOn(d) : isOverlap(timeslot, schedules[k].timeslot)
            THEN Respond("create-schedule", 400) /\ UNCHANGED schedules
            ELSE /\ schedules' = insertMany(schedules,
                        datesToCheck(date, repeatInterval, repeatEndDate),
                        timeslot, repeatInterval, repeatEndDate)
                 /\ Respond("create-schedule", 201)
       ELSE IF \E k \in schedulesOn(date) : isOverlap(timeslot, schedules[k].timeslot)
            THEN Respond("create-schedule", 400) /\ UNCHANGED schedules
            ELSE /\ schedules' = Append(schedules, newSchedule(date, timeslot, isRepeat, NoId, NoDate))
                 /\ Respond("create-schedule", 201)
    /\ UNCHANGED <<reservations, inflight, sessions, remaining_time, closing,
                   academicVars>>

\* SubjectScheduler.findByIdAndDelete: the document leaves the collection.
\* A schedule's _id is its position, so the documents stored after it move
\* down by one; an _id that matches nothing removes nothing.
findByIdAndDelete(coll, id) ==
    IF id \in DOMAIN coll
    THEN SubSeq(coll, 1, id - 1) \o SubSeq(coll, id + 1, Len(coll))
    ELSE coll

\* SubjectScheduler.findByIdAndUpdate(id, req.body): the fields of the body
\* replace the stored ones.
findByIdAndUpdate(coll, id, date, timeslot, isRepeat, repeatInterval, repeatEndDate) ==
    [coll EXCEPT ![id] = newSchedule(date, timeslot, isRepeat, repeatInterval, repeatEndDate)]

\* PUT /subject-scheduler/:id
UpdateSchedule(id, date, timeslot, isRepeat, repeatInterval, repeatEndDate) ==
    /\ IF isRepeat /\ repeatInterval # NoId /\ repeatEndDate # NoDate
       THEN /\ schedules' = insertMany(findByIdAndDelete(schedules, id),
                        datesToCheck(date, repeatInterval, repeatEndDate),
                        timeslot, repeatInterval, repeatEndDate)
            /\ Respond("update-schedule", 200)
       ELSE IF id \notin DOMAIN schedules
            THEN Respond("update-schedule", 404) /\ UNCHANGED schedules
            ELSE /\ schedules' = findByIdAndUpdate(schedules, id, date, timeslot,
                                                   isRepeat, repeatInterval, repeatEndDate)
                 /\ Respond("update-schedule", 200)
    /\ UNCHANGED <<reservations, inflight, sessions, remaining_time, closing,
                   academicVars>>

\* ------------------------------------------------------ availability probes
\* The slot grid runs from 08:00 to 17:00.
startMinutes == 8 * 60
endMinutes == 17 * 60

\* The slot starts of a loop without the break: the trailing slot that ends
\* after endMinutes is pushed as well.
slotStartsWithTrailing(durationMinutes) ==
    { startMinutes + k * durationMinutes :
        k \in 0..(((endMinutes - startMinutes + durationMinutes - 1) \div durationMinutes) - 1) }

\* The start of every slot the generating loop pushes: the loop stops at the
\* first slot that would end after endMinutes.
slotStarts(durationMinutes) ==
    { startMinutes + k * durationMinutes :
        k \in 0..(((endMinutes - startMinutes) \div durationMinutes) - 1) }

\* Reservation.find of GET /laboratory/availability/:laboratory_id
laboratoryProbeReservations(laboratory_id, date) ==
    { i \in DOMAIN reservations :
        /\ ~reservations[i].isDeleted
        /\ reservations[i].reservation_type = "laboratory"
        /\ reservations[i].laboratory_id = laboratory_id
        /\ reservations[i].reservation_date = date
        /\ reservations[i].status \in {"approved", "active"} }

\* The first Reservation.find of the computer probes: reservations of the
\* computers `computer_ids`.
computerReservations(computer_ids, date) ==
    { i \in DOMAIN reservations :
        /\ ~reservations[i].isDeleted
        /\ reservations[i].reservation_type = "computer"
        /\ reservations[i].computer_id \in computer_ids
        /\ reservations[i].reservation_date = date
        /\ reservations[i].status \in {"pending", "approved", "active"} }

\* The second Reservation.find of the computer probes: reservations of the
\* laboratory itself.
laboratoryReservations(laboratory_id, date) ==
    { i \in DOMAIN reservations :
        /\ ~reservations[i].isDeleted
        /\ reservations[i].reservation_type = "laboratory"
        /\ reservations[i].laboratory_id = laboratory_id
        /\ reservations[i].reservation_date = date
        /\ reservations[i].status \in {"pending", "approved", "active"} }

\* allReservations of GET /computer/availability/:computer_id with the
\* laboratory reservations left out.
allReservationsComputerOnly(computer_id, date) ==
    computerReservations({computer_id}, date)

\* allReservations of GET /computer/availability/:computer_id
allReservations(computer_id, date) ==
    computerReservations({computer_id}, date)
        \cup laboratoryReservations(computerLab[computer_id], date)

\* The reservations of `ids` whose interval overlaps the slot.
conflictingReservations(ids, currentMinutes, slotEndMinutes) ==
    { i \in ids :
        /\ currentMinutes < timeToMinutes(reservations[i].end_time)
        /\ timeToMinutes(reservations[i].start_time) < slotEndMinutes }

\* The class schedules of the day whose timeslot overlaps the slot.
conflictingSubjectSchedules(date, currentMinutes, slotEndMinutes) ==
    { k \in schedulesOn(date) :
        /\ currentMinutes < parseTimeslot(schedules[k].timeslot)[2]
        /\ parseTimeslot(schedules[k].timeslot)[1] < slotEndMinutes }

\* isPast of a slot: the probed day is today and the slot started before now.
isPast(date, currentMinutes, now) ==
    date = now \div 1440 /\ currentMinutes < (now % 1440)

\* One entry of time_slots whose availability looks at the conflicts only.
timeSlotIgnoringPast(ids, withSchedules, date, currentMinutes, durationMinutes, now) ==
    LET slotEndMinutes == currentMinutes + durationMinutes
        byReservation == conflictingReservations(ids, currentMinutes, slotEndMinutes)
        bySchedule == IF withSchedules
                      THEN conflictingSubjectSchedules(date, currentMinutes, slotEndMinutes)
                      ELSE {}
        hasConflict == byReservation # {} \/ bySchedule # {}
    IN  [start_time |-> minutesToTime(currentMinutes),
         end_time |-> minutesToTime(slotEndMinutes),
         is_available |-> ~hasConflict,
         is_past |-> isPast(date, currentMinutes, now),
         has_conflict |-> hasConflict,
         conflicting_reservations |-> byReservation,
         subject_conflicts |-> bySchedule]

\* One entry of time_slots.
timeSlot(ids, withSchedules, date, currentMinutes, durationMinutes, now) ==
    LET slotEndMinutes == currentMinutes + durationMinutes
        byReservation == conflictingReservations(ids, currentMinutes, slotEndMinutes)
        bySchedule == IF withSchedules
                      THEN conflictingSubjectSchedules(date, currentMinutes, slotEndMinutes)
                      ELSE {}
        hasConflict == byReservation # {} \/ bySchedule # {}
    IN  [start_time |-> minutesToTime(currentMinutes),
         end_time |-> minutesToTime(slotEndMinutes),
         is_available |-> ~isPast(date, currentMinutes, now) /\ ~hasConflict,
         is_past |-> isPast(date, currentMinutes, now),
         has_conflict |-> hasConflict,
         conflicting_reservations |-> byReservation,
         subject_conflicts |-> bySchedule]

\* time_slots: the slots in the order the loop pushes them.
timeSlots(ids, withSchedules, date, durationMinutes, now) ==
    [ n \in 1..Cardinality(slotStarts(durationMinutes)) |->
        timeSlot(ids, withSchedules, date,
                 startMinutes + (n - 1) * durationMinutes, durationMinutes, now) ]

\* hasEnoughTimeRemaining of the laboratory routes.
hasEnoughTimeRemaining(date, duration, now) ==
    date # now \div 1440 \/ duration <= 24 * 60 - (now % 1440)

Probe(op, target, date, duration, slots) ==
    /\ view' = [op |-> op, target |-> target, date |-> date,
                duration_minutes |-> duration, time_slots |-> slots]
    /\ resp' = [op |-> op, code |-> 200]
    /\ UNCHANGED <<reservations, inflight, sessions, remaining_time, closing, schedules,
                   academicVars>>

RefuseProbe(op, code) ==
    /\ Respond(op, code)
    /\ UNCHANGED <<reservations, inflight, sessions, remaining_time, closing, schedules,
                   academicVars>>

\* GET /laboratory/availability/:laboratory_id
LaboratoryAvailability(laboratory_id, date, duration, now) ==
    IF laboratory_id \notin Laboratories THEN RefuseProbe("laboratory-availability", 404)
    ELSE IF duration \notin {30, 60, 120, 540} THEN RefuseProbe("laboratory-availability", 400)
    ELSE IF ~hasEnoughTimeRemaining(date, duration, now)
         THEN RefuseProbe("laboratory-availability", 400)
    ELSE Probe("laboratory-availability", laboratory_id, date, duration,
               timeSlots(laboratoryProbeReservations(laboratory_id, date), TRUE,
                         date, duration, now))

\* GET /computer/availability/:computer_id
ComputerAvailability(computer_id, date, duration, now) ==
    IF computer_id \notin Computers THEN RefuseProbe("computer-availability", 404)
    ELSE IF duration \notin {30, 60, 120} THEN RefuseProbe("computer-availability", 400)
    ELSE Probe("computer-availability", computer_id, date, duration,
               timeSlots(allReservations(computer_id, date), TRUE, date, duration, now))

\* The computers of a laboratory.
computersOf(laboratory_id) == { c \in Computers : computerLab[c] = laboratory_id }

\* GET /computer/laboratory/:laboratory_id/availability: the class schedules
\* are not read.
LaboratoryComputersAvailability(laboratory_id, date, duration, now) ==
    IF laboratory_id \notin Laboratories THEN RefuseProbe("laboratory-computers", 404)
    ELSE IF duration \notin {30, 60, 120} THEN RefuseProbe("laboratory-computers", 400)
    ELSE IF computersOf(laboratory_id) = {} THEN RefuseProbe("laboratory-computers", 404)
    ELSE Probe("laboratory-computers", laboratory_id, date, duration,
               timeSlots(computerReservations(computersOf(laboratory_id), date)
                            \cup laboratoryReservations(laboratory_id, date),
                         FALSE, date, duration, now))

\* POST /reservations/check-conflicts passing the end of the interval, in
\* minutes since midnight, where the duration is expected.
CheckConflictsEndAsDuration(reservation_type, date, start_time, end_time) ==
    IF reservation_type = NoId \/ date = NoDate THEN RefuseProbe("check-conflicts", 400)
    ELSE IF ~isValidMilitaryTime(start_time) \/ ~isValidMilitaryTime(end_time)
         THEN RefuseProbe("check-conflicts", 400)
    ELSE IF timeToMinutes(end_time) <= timeToMinutes(start_time)
         THEN RefuseProbe("check-conflicts", 400)
    ELSE IF reservation_type \notin ReservationTypes THEN RefuseProbe("check-conflicts", 400)
    ELSE IF timeToMinutes(end_time) - timeToMinutes(start_time) > 480
         THEN RefuseProbe("check-conflicts", 400)
    ELSE LET conflicts == checkReservationConflicts(reservations, date, start_time,
                              timeToMinutes(end_time), reservation_type, 0)
         IN  /\ view' = [op |-> "check-conflicts", reservation_type |-> reservation_type,
                         date |-> date, start_time |-> start_time, end_time |-> end_time,
                         has_conflicts |-> conflicts # {}, conflicts |-> conflicts]
             /\ resp' = [op |-> "check-conflicts", code |-> 200]
             /\ UNCHANGED <<reservations, inflight, sessions, remaining_time, closing,
                            schedules, academicVars>>

\* POST /reservations/check-conflicts with start_time and end_time
CheckConflicts(reservation_type, date, start_time, end_time) ==
    IF reservation_type = NoId \/ date = NoDate THEN RefuseProbe("check-conflicts", 400)
    ELSE IF ~isValidMilitaryTime(start_time) \/ ~isValidMilitaryTime(end_time)
         THEN RefuseProbe("check-conflicts", 400)
    ELSE IF timeToMinutes(end_time) <= timeToMinutes(start_time)
         THEN RefuseProbe("check-conflicts", 400)
    ELSE IF reservation_type \notin ReservationTypes THEN RefuseProbe("check-conflicts", 400)
    ELSE IF timeToMinutes(end_time) - timeToMinutes(start_time) > 480
         THEN RefuseProbe("check-conflicts", 400)
    ELSE LET conflicts == checkReservationConflicts(reservations, date, start_time,
                              timeToMinutes(end_time) - timeToMinutes(start_time),
                              reservation_type, 0)
         IN  /\ view' = [op |-> "check-conflicts", reservation_type |-> reservation_type,
                         date |-> date, start_time |-> start_time, end_time |-> end_time,
                         has_conflicts |-> conflicts # {}, conflicts |-> conflicts]
             /\ resp' = [op |-> "check-conflicts", code |-> 200]
             /\ UNCHANGED <<reservations, inflight, sessions, remaining_time, closing,
                            schedules, academicVars>>

\* ------------------------------------------------ academic configuration
\* The variables the academic routes and the scheduler never write.
bookingVars == <<reservations, inflight, sessions, closing, schedules, numberVars, authVars,
                 starting, studentVars>>

\* The semesters of a configuration: name, first day and last day.
Semesters ==
    <<[name |-> "1st", start_date |-> 2, end_date |-> 2],
      [name |-> "2nd", start_date |-> 3, end_date |-> 3],
      [name |-> "summer", start_date |-> 5, end_date |-> 5]>>

\* SystemDefaults.default_allotted_time of the current defaults document.
default_allotted_time == <<3, 0, 0>>

\* computeActiveSemester: the first semester whose days contain `date`.
computeActiveSemester(config, date) ==
    LET hits == { k \in DOMAIN config.semesters :
                    config.semesters[k].start_date <= date
                    /\ date <= config.semesters[k].end_date }
    IN  IF hits = {} THEN NoId
        ELSE config.semesters[CHOOSE k \in hits : \A j \in hits : k <= j].name

\* AcademicConfig.findOne({is_active: true}); 0 when there is none.
activeConfig ==
    IF \E k \in DOMAIN configs : configs[k].is_active
    THEN CHOOSE k \in DOMAIN configs : configs[k].is_active
    ELSE 0

\* POST /system-config without the unique index on is_active: the save
\* stores a second active configuration.
CreateConfigNoIndex(actor, school_year, make_active) ==
    /\ IF \E k \in DOMAIN configs : configs[k].school_year = school_year
       THEN Respond("create-config", 400) /\ UNCHANGED configs
       ELSE LET config == [school_year |-> school_year, semesters |-> Semesters,
                           active_semester |-> NoId, is_active |-> make_active,
                           last_promotion_school_year |-> NoId]
            IN  /\ configs' = Append(configs,
                        [config EXCEPT !.active_semester = computeActiveSemester(config, clock)])
                /\ Respond("create-config", 201)
    /\ UNCHANGED <<bookingVars, remaining_time, triggers, clock>>

\* POST /system-config: the school-year test, the save (the unique index on
\* is_active refuses a second active configuration) and the save of the
\* computed active_semester.
CreateConfig(actor, school_year, make_active) ==
    /\ IF \E k \in DOMAIN configs : configs[k].school_year = school_year
       THEN Respond("create-config", 400) /\ UNCHANGED configs
       ELSE IF make_active /\ activeConfig # 0
       THEN Respond("create-config", 500) /\ UNCHANGED configs
       ELSE LET config == [school_year |-> school_year, semesters |-> Semesters,
                           active_semester |-> NoId, is_active |-> make_active,
                           last_promotion_school_year |-> NoId]
            IN  /\ configs' = Append(configs,
                        [config EXCEPT !.active_semester = computeActiveSemester(config, clock)])
                /\ Respond("create-config", 201)
    /\ UNCHANGED <<bookingVars, remaining_time, triggers, clock>>

\* PUT /system-config/:id with a school year (NoId for none): the save of the
\* changed paths, is_active not among them, and the save of the computed
\* active_semester.
UpdateConfig(actor, id, school_year) ==
    /\ IF id \notin DOMAIN configs
       THEN Respond("update-config", 404) /\ UNCHANGED configs
       ELSE LET config == [configs[id] EXCEPT
                              !.school_year = IF school_year # NoId THEN school_year ELSE @]
            IN  /\ configs' = [configs EXCEPT ![id] =
                        [config EXCEPT !.active_semester = computeActiveSemester(config, clock)]]
                /\ Respond("update-config", 200)
    /\ UNCHANGED <<bookingVars, remaining_time, triggers, clock>>

\* GET /system-config/current: stores the computed active_semester of the
\* active configuration when it differs from the stored one.
GetCurrent(actor) ==
    /\ IF activeConfig = 0
       THEN Respond("current", 404) /\ UNCHANGED configs
       ELSE /\ configs' = [configs EXCEPT ![activeConfig].active_semester =
                                computeActiveSemester(configs[activeConfig], clock)]
            /\ Respond("current", 200)
    /\ UNCHANGED <<bookingVars, remaining_time, triggers, clock>>

\* A call of setActiveConfig or updateActiveSemesterForActiveConfig between two
\* of its awaits: the configuration, the values of `previous` and `current`,
\* the await it waits for and the modifiedCount of its updateMany.
call(fn, id, previous, current, pc, updatedCount) ==
    [fn |-> fn, id |-> id, previous |-> previous, current |-> current, pc |-> pc,
     updatedCount |-> updatedCount]

resume(t, u) == triggers' = (triggers (-) SetToBag({t})) (+) SetToBag({u})

\* PATCH /system-config/:id/activate up to the end of the transaction of
\* setActiveConfig, which moves is_active to the configuration.
ActivateConfig(actor, id) ==
    IF id \notin DOMAIN configs
    THEN Respond("activate", 404) /\ UNCHANGED <<bookingVars, remaining_time, academicVars>>
    ELSE IF configs[id].is_active
    THEN Respond("activate", 400) /\ UNCHANGED <<bookingVars, remaining_time, academicVars>>
    ELSE /\ configs' = [k \in DOMAIN configs |-> [configs[k] EXCEPT !.is_active = (k = id)]]
         /\ triggers' = triggers (+) SetToBag({call("setActiveConfig", id, NoId, NoId, "findById", 0)})
         /\ UNCHANGED <<bookingVars, remaining_time, resp, view, clock>>

\* setActiveConfig: findById and the comparison of previous and current.
setActiveConfig(t) ==
    /\ BagIn(t, triggers) /\ t.fn = "setActiveConfig" /\ t.pc = "findById"
    /\ LET previous == configs[t.id].active_semester
           current == computeActiveSemester(configs[t.id], clock)
       IN  resume(t, call(t.fn, t.id, previous, current,
                          IF previous # current THEN "save" ELSE "return", 0))
    /\ UNCHANGED <<bookingVars, remaining_time, resp, view, configs, clock>>

\* updateActiveSemesterForActiveConfig, called by the midnight scheduler and by
\* the manual script: the findOne and the comparison of previous and current.
updateActiveSemesterForActiveConfig ==
    /\ activeConfig # 0
    /\ LET previous == configs[activeConfig].active_semester
           current == computeActiveSemester(configs[activeConfig], clock)
       IN  /\ previous # current
           /\ triggers' = triggers (+) SetToBag({
                  call("updateActiveSemesterForActiveConfig", activeConfig,
                       previous, current, "save", 0)})
    /\ UNCHANGED <<bookingVars, remaining_time, resp, view, configs, clock>>

\* Whether the call resets the balances after its save.
resets(t) == t.previous = NoId /\ t.current # NoId /\ default_allotted_time # NoTime

\* config.active_semester = current; await config.save()
SaveActiveSemester(t) ==
    /\ BagIn(t, triggers) /\ t.pc = "save"
    /\ configs' = [configs EXCEPT ![t.id].active_semester = t.current]
    /\ resume(t, [t EXCEPT !.pc = IF resets(t) THEN "updateMany" ELSE "return"])
    /\ UNCHANGED <<bookingVars, remaining_time, resp, view, clock>>

\* The balances after User.updateMany({user_type: "student", isDeleted: false},
\* {$set: {remaining_time: default_allotted_time}}).
resetAll(balances) ==
    [u \in Users |-> IF user_type[u] = "student" THEN default_allotted_time ELSE balances[u]]

modifiedCount(balances) == Cardinality({ u \in Users : resetAll(balances)[u] # balances[u] })

UpdateMany(t) ==
    /\ BagIn(t, triggers) /\ t.pc = "updateMany"
    /\ remaining_time' = resetAll(remaining_time)
    /\ resume(t, [t EXCEPT !.pc = "return", !.updatedCount = modifiedCount(remaining_time)])
    /\ UNCHANGED <<bookingVars, resp, view, configs, clock>>

\* User.updateMany rejects, or the process stops before it runs: the call ends
\* with the error; the route answers 500, the scheduler logs it.
UpdateManyFails(t) ==
    /\ BagIn(t, triggers) /\ t.pc = "updateMany"
    /\ triggers' = triggers (-) SetToBag({t})
    /\ IF t.fn = "setActiveConfig" THEN Respond("activate", 500) ELSE UNCHANGED <<resp, view>>
    /\ UNCHANGED <<bookingVars, remaining_time, configs, clock>>

\* The call returns its result; the route answers 200.
Return(t) ==
    /\ BagIn(t, triggers) /\ t.pc = "return"
    /\ triggers' = triggers (-) SetToBag({t})
    /\ IF t.fn = "setActiveConfig" THEN Respond("activate", 200) ELSE UNCHANGED <<resp, view>>
    /\ UNCHANGED <<bookingVars, remaining_time, configs, clock>>

\* Midnight: the next calendar day begins.
Midnight ==
    /\ clock' = clock + 1
    /\ UNCHANGED <<bookingVars, remaining_time, resp, view, configs, triggers>>

\* ------------------------------------------------------ year-level promotion
YearLevels == {"1st year", "2nd year", "3rd year", "4th year"}

\* The latest end_date of the semesters of a configuration.
lastEnd(config) ==
    LET ends == { config.semesters[k].end_date : k \in DOMAIN config.semesters }
    IN  CHOOSE e \in ends : \A d \in ends : d <= e

\* The year levels after User.updateMany({user_type: "student", isDeleted:
\* false, yearLevel: from}, {$set: {yearLevel: to}}).
setYearLevel(levels, from, to) ==
    [u \in Users |-> IF user_type[u] = "student" /\ levels[u] = from THEN to ELSE levels[u]]

\* The year levels after the three updates r1, r2 and r3, in the order the
\* function awaits them.
promotedYearLevels(levels) ==
    setYearLevel(setYearLevel(setYearLevel(levels, "1st year", "2nd year"),
                              "2nd year", "3rd year"),
                 "3rd year", "4th year")

\* The statuses after r4: User.updateMany({user_type: "student", isDeleted:
\* false, yearLevel: "4th year"}, {$set: {status: "suspended"}}).
suspendFourthYear(levels, statuses) ==
    [u \in Users |-> IF user_type[u] = "student" /\ levels[u] = "4th year"
                     THEN "suspended" ELSE statuses[u]]

\* promoteStudentYearLevelsIfYearEnded, called by the promoteYearLevels script
\* with the current date: the findOne and the three tests.  A call that
\* returns at one of them changes nothing; a call that passes them goes on to
\* its updates.
promoteStudentYearLevelsIfYearEnded ==
    /\ activeConfig # 0
    /\ clock > lastEnd(configs[activeConfig])
    /\ configs[activeConfig].last_promotion_school_year # configs[activeConfig].school_year
    /\ triggers' = triggers (+) SetToBag({
           call("promoteStudentYearLevelsIfYearEnded", activeConfig, NoId, NoId,
                "updateYearLevels", 0)})
    /\ UNCHANGED <<bookingVars, remaining_time, resp, view, configs, clock>>

\* The four updateMany calls r1 to r4 of a promotion; nothing else writes
\* yearLevel, so they are taken together.
PromoteUpdateMany(t) ==
    /\ BagIn(t, triggers) /\ t.pc = "updateYearLevels"
    /\ yearLevel' = promotedYearLevels(yearLevel)
    /\ user_status' = suspendFourthYear(promotedYearLevels(yearLevel), user_status)
    /\ resume(t, [t EXCEPT !.pc = "savePromotion"])
    /\ UNCHANGED <<reservations, inflight, sessions, closing, schedules, numberVars, authVars,
                   starting, remaining_time, resp, view, configs, clock>>

\* config.last_promotion_school_year = config.school_year; await config.save()
PromoteSave(t) ==
    /\ BagIn(t, triggers) /\ t.pc = "savePromotion"
    /\ configs' = [configs EXCEPT ![t.id].last_promotion_school_year = configs[t.id].school_year]
    /\ triggers' = triggers (-) SetToBag({t})
    /\ UNCHANGED <<bookingVars, remaining_time, resp, view, clock>>

\* ------------------------------------------------------ reservation numbers
\* generateReservationNumber: `number` is the value of nanoid in the last
\* iteration of the loop, the one whose findOne({reservation_number,
\* isDeleted: false}) finds nothing; the iterations before it change nothing.
\* The request waits for its save with that number.
generateReservationNumber(req, number) ==
    /\ createValidate(req) = 0 /\ ~conflictChecked(req)
    /\ ~\E i \in DOMAIN reservations :
          reservation_number[i] = number /\ ~reservations[i].isDeleted
    /\ generating' = generating (+) SetToBag({[req |-> req, number |-> number]})
    /\ UNCHANGED <<reservations, inflight, sessions, remaining_time, resp, view, closing,
                   schedules, configs, triggers, clock, reservation_number, authVars,
                   starting, studentVars>>

\* The unique index on reservation_number: it covers every stored document.
duplicateKey(number) == \E i \in DOMAIN reservation_number : reservation_number[i] = number

\* reservation.save() of a numbered request: a duplicate key error is caught
\* by the handler and answered 500.
SaveNumbered(g, now) ==
    /\ BagIn(g, generating)
    /\ generating' = generating (-) SetToBag({g})
    /\ IF duplicateKey(g.number)
       THEN Respond("create", 500) /\ UNCHANGED <<reservations, reservation_number>>
       ELSE /\ saveNew(g.req, now)
            /\ reservation_number' =
                  IF reservationPreSave(newReservation(g.req), TRUE, now) = "ok"
                  THEN Append(reservation_number, g.number)
                  ELSE reservation_number
    /\ UNCHANGED <<inflight, sessions, remaining_time, closing, schedules,
                   configs, triggers, clock, authVars, starting, studentVars>>

\* ------------------------------------------------------------ password reset
\* The limits of POST /auth/forgot-password and the lifetimes of the
\* credentials, in minutes.
minIntervalMs == 2
windowMs == 60
hourlyCap == 5
otpLifetime == 10
tokenLifetime == 60

NoAccount == "nobody"
NoHash == <<>>

\* bcrypt.hash and bcrypt.compare.
bcryptHash(otp) == <<"bcrypt", otp>>
bcryptCompare(otp, hash) == hash = <<"bcrypt", otp>>

\* The variables the routes of /v1/auth never write.
nonAuthVars == <<reservations, inflight, sessions, remaining_time, closing, schedules,
                 configs, triggers, clock, numberVars, starting, studentVars>>

\* The users as POST /users stores them: a student in the first year, status
\* "active"; a faculty member has no year level.
InitStudents ==
    /\ yearLevel = [u \in Users |-> IF user_type[u] = "student" THEN "1st year" ELSE NoId]
    /\ user_status = [u \in Users |-> "active"]

InitAuth ==
    /\ admin_reset = [a \in Admins |->
                        [resetPasswordOtpHash |-> NoHash,
                         resetPasswordOtpExpires |-> NoDate,
                         resetPasswordOtpRequestedAt |-> NoDate,
                         resetPasswordOtpRequestCount |-> 0]]
    /\ password = [e \in Actors |-> "initial"]
    /\ forgetting = EmptyBag
    /\ resetting = EmptyBag
    /\ mails = [e \in Actors |-> <<>>]
    /\ minute = 0

\* The reset fields of a User document as findOne returns it.  The User
\* schema declares none of resetPasswordToken, resetPasswordExpires,
\* resetPasswordLastRequestAt and resetPasswordRequestCount, so what the
\* handler assigns to them is dropped by save() and every loaded document
\* has them undefined.
userResetFields(email) ==
    [resetPasswordToken |-> NoId,
     resetPasswordExpires |-> NoDate,
     resetPasswordLastRequestAt |-> NoDate,
     resetPasswordRequestCount |-> 0]

\* The request count after the window test of forgot-password.
windowCount(lastRequestAt, requestCount, now) ==
    IF lastRequestAt = NoDate \/ now - lastRequestAt > windowMs THEN 0 ELSE requestCount

\* The two rate tests of forgot-password: the reason of the refusal, or "ok".
rateLimited(lastRequestAt, requestCount, now) ==
    IF lastRequestAt # NoDate /\ now - lastRequestAt < minIntervalMs
    THEN "rate_limited_min_interval"
    ELSE IF windowCount(lastRequestAt, requestCount, now) >= hourlyCap
    THEN "rate_limited_hourly_cap"
    ELSE "ok"

\* A mail carries the token or OTP it was sent for; the notice of a changed
\* password carries none.
sendMail(to, credential, at) ==
    mails' = [mails EXCEPT ![to] = Append(@, [credential |-> credential, at |-> at])]

\* The mails to an account that carry a credential, and the notices.
credentialMails(email) == SelectSeq(mails[email], LAMBDA m : m.credential # NoId)
changedMails(email) == SelectSeq(mails[email], LAMBDA m : m.credential = NoId)

\* POST /auth/forgot-password up to `await admin.save()`; `credential` is the
\* random token or OTP.  The branch of a user account runs to its response:
\* it reads and writes no stored reset field.
ForgotPassword(email, credential) ==
    IF email = NoId
    THEN Respond("forgot-password", 400)
         /\ UNCHANGED <<nonAuthVars, authVars>>
    ELSE IF email \in Users
    THEN IF rateLimited(userResetFields(email).resetPasswordLastRequestAt,
                        userResetFields(email).resetPasswordRequestCount, minute) # "ok"
         THEN Respond("forgot-password", 429)
              /\ UNCHANGED <<nonAuthVars, authVars>>
         ELSE /\ sendMail(email, credential, minute)
              /\ Respond("forgot-password", 200)
              /\ UNCHANGED <<nonAuthVars, admin_reset, password, forgetting, resetting, minute>>
    ELSE IF email \in Admins
    THEN IF rateLimited(admin_reset[email].resetPasswordOtpRequestedAt,
                        admin_reset[email].resetPasswordOtpRequestCount, minute) # "ok"
         THEN Respond("forgot-password", 429)
              /\ UNCHANGED <<nonAuthVars, authVars>>
         ELSE /\ forgetting' = forgetting (+) SetToBag({
                      [email |-> email, credential |-> credential, now |-> minute,
                       count |-> windowCount(admin_reset[email].resetPasswordOtpRequestedAt,
                                             admin_reset[email].resetPasswordOtpRequestCount,
                                             minute)]})
              /\ UNCHANGED <<nonAuthVars, resp, view, admin_reset, password, resetting,
                             mails, minute>>
    ELSE Respond("forgot-password", 404)
         /\ UNCHANGED <<nonAuthVars, authVars>>

\* admin.save() of forgot-password, the mail and the response.
ForgotPasswordSave(f) ==
    /\ BagIn(f, forgetting)
    /\ forgetting' = forgetting (-) SetToBag({f})
    /\ admin_reset' = [admin_reset EXCEPT ![f.email] =
                          [resetPasswordOtpHash |-> bcryptHash(f.credential),
                           resetPasswordOtpExpires |-> f.now + otpLifetime,
                           resetPasswordOtpRequestedAt |-> f.now,
                           resetPasswordOtpRequestCount |-> f.count + 1]]
    /\ sendMail(f.email, f.credential, f.now)
    /\ Respond("forgot-password", 200)
    /\ UNCHANGED <<nonAuthVars, password, resetting, minute>>

\* User.findOne({email, isDeleted: false, resetPasswordToken: token,
\* resetPasswordExpires: {$gt: now}}) of reset-password.  Neither path is in
\* the User schema: with strictQuery on, the two conditions are removed from
\* the filter and the account matches; with strictQuery off they are sent to
\* the database, where no document has the fields.
findUserByToken(email, token, strictQuery) ==
    /\ email \in Users
    /\ \/ strictQuery
       \/ /\ userResetFields(email).resetPasswordToken = token
          /\ userResetFields(email).resetPasswordExpires > minute

\* POST /auth/reset-password; the reset of an administrator runs up to
\* `await admin.save()`.
ResetPassword(email, credential, newPassword, strictQuery) ==
    IF email = NoId \/ newPassword = NoId
    THEN Respond("reset-password", 400) /\ UNCHANGED <<nonAuthVars, authVars>>
    ELSE IF email \in Admins
    THEN IF credential = NoId
         THEN Respond("reset-password", 400) /\ UNCHANGED <<nonAuthVars, authVars>>
         ELSE IF \/ admin_reset[email].resetPasswordOtpHash = NoHash
                 \/ admin_reset[email].resetPasswordOtpExpires = NoDate
                 \/ admin_reset[email].resetPasswordOtpExpires <= minute
         THEN Respond("reset-password", 400) /\ UNCHANGED <<nonAuthVars, authVars>>
         ELSE IF ~bcryptCompare(credential, admin_reset[email].resetPasswordOtpHash)
         THEN Respond("reset-password", 400) /\ UNCHANGED <<nonAuthVars, authVars>>
         ELSE /\ resetting' = resetting (+) SetToBag({
                      [email |-> email, credential |-> credential, password |-> newPassword]})
              /\ UNCHANGED <<nonAuthVars, resp, view, admin_reset, password, forgetting,
                             mails, minute>>
    ELSE IF credential = NoId
    THEN Respond("reset-password", 400) /\ UNCHANGED <<nonAuthVars, authVars>>
    ELSE IF ~findUserByToken(email, credential, strictQuery)
    THEN Respond("reset-password", 400) /\ UNCHANGED <<nonAuthVars, authVars>>
    ELSE /\ password' = [password EXCEPT ![email] = newPassword]
         /\ sendMail(email, NoId, minute)
         /\ Respond("reset-password", 200)
         /\ UNCHANGED <<nonAuthVars, admin_reset, forgetting, resetting, minute>>

\* admin.save() of reset-password, the notice and the response.
ResetPasswordSave(r) ==
    /\ BagIn(r, resetting)
    /\ resetting' = resetting (-) SetToBag({r})
    /\ password' = [password EXCEPT ![r.email] = r.password]
    /\ admin_reset' = [admin_reset EXCEPT ![r.email].resetPasswordOtpHash = NoHash,
                                          ![r.email].resetPasswordOtpExpires = NoDate]
    /\ sendMail(r.email, NoId, minute)
    /\ Respond("reset-password", 200)
    /\ UNCHANGED <<nonAuthVars, forgetting, minute>>

\* Time passes: the clock reaches instant t.
Tick(t) ==
    /\ t > minute
    /\ minute' = t
    /\ UNCHANGED <<nonAuthVars, resp, view, admin_reset, password, forgetting, resetting,
                   mails>>

\* ------------------------------------------------------------ specifications
InitialBalance == <<2, 0, 0>>

Init ==
    /\ reservations = <<>>
    /\ inflight = EmptyBag
    /\ sessions = <<>>
    /\ remaining_time = [u \in Users |-> IF user_type[u] = "student" THEN InitialBalance ELSE NoTime]
    /\ resp = [op |-> "none", code |-> 0]
    /\ closing = EmptyBag
    /\ schedules = <<>>
    /\ view = NoView
    /\ configs = <<>>
    /\ triggers = EmptyBag
    /\ clock = 1
    /\ reservation_number = <<>>
    /\ generating = EmptyBag
    /\ InitAuth
    /\ starting = EmptyBag
    /\ InitStudents

\* The model accepts a create request while fewer than `max` reservations are
\* stored or waiting for their save.
HasCapacity(max) == Len(reservations) + BagCardinality(inflight) < max

\* Spec: booking.  Creation by every role on every resource, date and interval,
\* interleaved with the routes that commit a hold (approve), keep it (start)
\* and release it (cancel).
Resources ==
    {<<"laboratory", l>> : l \in Laboratories} \cup {<<"computer", c>> : c \in Computers}

Requests ==
    { Request(a, tr[1], tr[2], d, s, e) :
        a \in Actors, tr \in Resources, d \in Dates, s \in TimeStrs, e \in TimeStrs }

Ids == 1..MaxRes

Next ==
    \/ \E req \in Requests, now \in Nows : HasCapacity(MaxRes) /\ CreateReservation(req, now)
    \/ \E req \in Requests, now \in Nows : CreateSave(req, now)
    \/ \E a \in Admins, id \in Ids : Approve(a, id)
    \/ \E a \in Admins, id \in Ids, now \in Nows : Start(a, id, now)
    \/ \E a \in Actors, id \in Ids : Cancel(a, id)

Spec == Init /\ [][Next]_vars

\* SpecLifecycle: every route that changes a reservation's status, on one
\* computer or laboratory reservation of a fixed date and interval.
LifecycleRequests ==
    { Request(a, t, r, 2, <<9, 0>>, <<10, 0>>) :
        a \in Actors, t \in ReservationTypes, r \in {"L1", "PC1"} }

LifecycleIds == 1..MaxLifecycleRes

TimeIns == {NoTime, <<8, 0>>}
TimeOuts == {NoTime, <<8, 0>>, <<10, 0>>}

NextLifecycle ==
    \/ \E req \in LifecycleRequests, now \in Nows :
          HasCapacity(MaxLifecycleRes) /\ CreateReservation(req, now)
    \/ \E req \in LifecycleRequests, now \in Nows : CreateSave(req, now)
    \/ \E a \in Actors, id \in LifecycleIds, st \in Statuses, now \in Nows :
          UpdateStatus(a, id, st, now)
    \/ \E a \in Actors, id \in LifecycleIds : Approve(a, id)
    \/ \E a \in Actors, id \in LifecycleIds : Reject(a, id)
    \/ \E a \in Actors, id \in LifecycleIds, now \in Nows : Start(a, id, now)
    \/ \E a \in Actors, id \in LifecycleIds, now \in Nows : Complete(a, id, now)
    \/ \E a \in Actors, id \in LifecycleIds : Cancel(a, id)
    \/ \E a \in Actors, id \in LifecycleIds : Delete(a, id)
    \/ \E a \in Actors, id \in LifecycleIds, t \in TimeIns, now \in Nows :
          StartSession(a, id, t, now)
    \/ \E a \in Actors, id \in LifecycleIds, t \in TimeOuts, now \in Nows :
          BagCardinality(closing) < MaxLifecycleClosing /\ EndSession(a, id, t, "completed", now)
    \/ \E c \in BagToSet(closing) : EndSessionSave(c)
    \/ \E c \in BagToSet(closing) : EndSessionFindUser(c)
    \/ \E c \in BagToSet(closing) : EndSessionUpdateUser(c)
    \/ \E c \in BagToSet(closing) : EndSessionComplete(c)

SpecLifecycle == Init /\ [][NextLifecycle]_vars

\* SpecStart: start-session requests in progress at the same time, on
\* reservations that were created and approved.
MaxStartRes == 2
MaxStarting == 2

StartRequests ==
    { Request(a, "computer", "PC1", 2, <<9, 0>>, <<10, 0>>) : a \in Users }

StartIds == 1..MaxStartRes

NextStart ==
    \/ \E req \in StartRequests, now \in Nows :
          HasCapacity(MaxStartRes) /\ CreateReservation(req, now)
    \/ \E a \in Admins, id \in StartIds : Approve(a, id)
    \/ \E a \in Admins, id \in StartIds, t \in TimeIns, now \in Nows :
          BagCardinality(starting) < MaxStarting /\ StartSessionFind(a, id, t, now)
    \/ \E s \in BagToSet(starting) : StartSessionCreate(s)

SpecStart == Init /\ [][NextStart]_vars

\* SpecPromotion: a student of any year level, one academic configuration, the
\* days of its school year and the days after it, and the promotion script
\* run up to MaxPromotions times at once.
MaxPromotionConfigs == 1
MaxPromotionClock == 7
MaxPromotions == 2

InitPromotion ==
    /\ reservations = <<>>
    /\ inflight = EmptyBag
    /\ sessions = <<>>
    /\ remaining_time = [u \in Users |-> IF user_type[u] = "student" THEN InitialBalance ELSE NoTime]
    /\ resp = [op |-> "none", code |-> 0]
    /\ closing = EmptyBag
    /\ schedules = <<>>
    /\ view = NoView
    /\ configs = <<>>
    /\ triggers = EmptyBag
    /\ clock = 1
    /\ reservation_number = <<>>
    /\ generating = EmptyBag
    /\ InitAuth
    /\ starting = EmptyBag
    /\ yearLevel \in [Users -> YearLevels \cup {NoId}]
    /\ \A u \in Users : yearLevel[u] = NoId <=> user_type[u] = "faculty"
    /\ user_status = [u \in Users |-> "active"]

NextPromotion ==
    \/ \E a \in Admins, y \in {"2024-2025"} :
          Len(configs) < MaxPromotionConfigs /\ CreateConfig(a, y, TRUE)
    \/ clock < MaxPromotionClock /\ Midnight
    \/ BagCardinality(triggers) < MaxPromotions /\ promoteStudentYearLevelsIfYearEnded
    \/ \E t \in BagToSet(triggers) : PromoteUpdateMany(t)
    \/ \E t \in BagToSet(triggers) : PromoteSave(t)

SpecPromotion == InitPromotion /\ [][NextPromotion]_vars

\* SpecActive: up to MaxActiveConfigs academic configurations are created,
\* active or not, updated and activated over the first days, with up to
\* MaxActivations calls of setActiveConfig in progress.
MaxActiveConfigs == 2
MaxActivations == 2
MaxActiveClock == 2

ActiveYears == {"2024-2025", "2025-2026"}

NextActive ==
    \/ \E a \in Admins, y \in ActiveYears, m \in BOOLEAN :
          Len(configs) < MaxActiveConfigs /\ CreateConfig(a, y, m)
    \/ \E a \in Admins, id \in 1..MaxActiveConfigs, y \in ActiveYears \cup {NoId} :
          UpdateConfig(a, id, y)
    \/ \E a \in Admins, id \in 1..MaxActiveConfigs :
          BagCardinality(triggers) < MaxActivations /\ ActivateConfig(a, id)
    \/ \E t \in BagToSet(triggers) : setActiveConfig(t)
    \/ \E t \in BagToSet(triggers) : SaveActiveSemester(t)
    \/ \E t \in BagToSet(triggers) : UpdateMany(t)
    \/ \E t \in BagToSet(triggers) : UpdateManyFails(t)
    \/ \E t \in BagToSet(triggers) : Return(t)
    \/ clock < MaxActiveClock /\ Midnight

SpecActive == Init /\ [][NextActive]_vars

\* SpecProbe: creation of reservations and class schedules on one day,
\* interleaved with the three availability probes and the conflict check.
ProbeDate == 2

ProbeIntervals == {<<<<8, 0>>, <<9, 0>>>>, <<<<9, 0>>, <<10, 0>>>>}

CheckIntervals == ProbeIntervals \cup {<<<<8, 0>>, <<10, 0>>>>}

ProbeRequests ==
    { Request(a, tr[1], tr[2], ProbeDate, iv[1], iv[2]) :
        a \in Actors, tr \in Resources, iv \in ProbeIntervals }

ProbeDurations == {60, 120, 540}

Timeslots == {<<<<8, 0>>, <<9, 0>>>>, <<<<9, 0>>, <<10, 0>>>>}

NextProbe ==
    \/ \E req \in ProbeRequests, now \in Nows :
          HasCapacity(MaxProbeRes) /\ CreateReservation(req, now)
    \/ \E req \in ProbeRequests, now \in Nows : CreateSave(req, now)
    \/ \E ts \in Timeslots :
          Len(schedules) < MaxSchedules /\ CreateSchedule(ProbeDate, ts, FALSE, NoId, NoDate)
    \/ \E l \in Laboratories, d \in Dates, dur \in ProbeDurations, now \in Nows :
          LaboratoryAvailability(l, d, dur, now)
    \/ \E c \in Computers, d \in Dates, dur \in ProbeDurations, now \in Nows :
          ComputerAvailability(c, d, dur, now)
    \/ \E l \in Laboratories, d \in Dates, dur \in ProbeDurations, now \in Nows :
          LaboratoryComputersAvailability(l, d, dur, now)
    \/ \E t \in ReservationTypes, d \in Dates, iv \in CheckIntervals :
          CheckConflicts(t, d, iv[1], iv[2])

SpecProbe == Init /\ [][NextProbe]_vars

\* SpecQuota: computer reservations of the student and of the faculty user,
\* approved, started as usage sessions and closed; up to MaxClosing close
\* requests are in progress at once.  The student starts with 02:00:00.
QuotaRequests ==
    { Request(a, "computer", "PC1", 2, <<9, 0>>, <<10, 0>>) : a \in Users }

QuotaIds == 1..MaxQuotaRes

QuotaTimeIn == <<8, 0>>
QuotaTimeOuts == {<<9, 0>>, <<10, 0>>, <<11, 0>>}

NextQuota ==
    \/ \E req \in QuotaRequests, now \in Nows :
          HasCapacity(MaxQuotaRes) /\ CreateReservation(req, now)
    \/ \E a \in Admins, id \in QuotaIds : Approve(a, id)
    \/ \E a \in Admins, id \in QuotaIds, now \in Nows : StartSession(a, id, QuotaTimeIn, now)
    \/ \E a \in Admins, id \in QuotaIds, t \in QuotaTimeOuts, now \in Nows :
          BagCardinality(closing) < MaxClosing /\ EndSession(a, id, t, "completed", now)
    \/ \E c \in BagToSet(closing) : EndSessionSave(c)
    \/ \E c \in BagToSet(closing) : EndSessionFindUser(c)
    \/ \E c \in BagToSet(closing) : EndSessionUpdateUser(c)
    \/ \E c \in BagToSet(closing) : EndSessionComplete(c)

SpecQuota == Init /\ [][NextQuota]_vars

\* SpecSemester: one academic configuration is created, activated and read
\* while the days pass and the scheduler or the script runs, up to MaxTriggers
\* calls at once; the student books, starts and closes one session.
SchoolYears == {"2024-2025"}

SemesterRequest == Request("s1", "computer", "PC1", 2, <<9, 0>>, <<10, 0>>)

SemesterNow == clock * 1440 + 9 * 60

NextSemester ==
    \/ \E a \in Admins, y \in SchoolYears, m \in BOOLEAN :
          Len(configs) < MaxConfigs /\ CreateConfig(a, y, m)
    \/ \E a \in {"s1"} : GetCurrent(a)
    \/ \E a \in Admins, id \in 1..MaxConfigs :
          BagCardinality(triggers) < MaxTriggers /\ ActivateConfig(a, id)
    \/ BagCardinality(triggers) < MaxTriggers /\ updateActiveSemesterForActiveConfig
    \/ \E t \in BagToSet(triggers) : setActiveConfig(t)
    \/ \E t \in BagToSet(triggers) : SaveActiveSemester(t)
    \/ \E t \in BagToSet(triggers) : UpdateMany(t)
    \/ \E t \in BagToSet(triggers) : UpdateManyFails(t)
    \/ \E t \in BagToSet(triggers) : Return(t)
    \/ clock < MaxClock /\ Midnight
    \/ HasCapacity(MaxLifecycleRes) /\ CreateReservation(SemesterRequest, SemesterNow)
    \/ \E a \in Admins : Approve(a, 1)
    \/ \E a \in Admins : StartSession(a, 1, QuotaTimeIn, SemesterNow)
    \/ \E a \in Admins :
          BagCardinality(closing) < MaxLifecycleClosing
          /\ EndSession(a, 1, <<10, 0>>, "completed", SemesterNow)
    \/ \E c \in BagToSet(closing) : EndSessionSave(c)
    \/ \E c \in BagToSet(closing) : EndSessionFindUser(c)
    \/ \E c \in BagToSet(closing) : EndSessionUpdateUser(c)
    \/ \E c \in BagToSet(closing) : EndSessionComplete(c)

SpecSemester == Init /\ [][NextSemester]_vars

\* SpecNumber: creations of the student's computer reservation with numbers
\* drawn from a space of NumberSpace values, interleaved with soft deletion.
NumberRequest == Request("s1", "computer", "PC1", 2, <<9, 0>>, <<10, 0>>)

Numbers == 1..NumberSpace

NextNumber ==
    \/ \E n \in Numbers :
          /\ Len(reservations) + BagCardinality(generating) < MaxNumberRes
          /\ generateReservationNumber(NumberRequest, n)
    \/ \E g \in BagToSet(generating), now \in Nows : SaveNumbered(g, now)
    \/ \E a \in Admins, id \in 1..MaxNumberRes : Delete(a, id)

SpecNumber == Init /\ [][NextNumber]_vars

\* SpecEdit: every route of the reservation router that writes a stored
\* reservation, on one reservation of the student or created by the admin.
EditRequests ==
    { Request(a, "computer", "PC1", 2, <<9, 0>>, <<10, 0>>) : a \in {"s1", "a1"} }

EditIds == 1..MaxEditRes

Editors == {"s1"}

EditPurposes == {Undefined, "thesis"}
EditNotes == {Undefined, "moved"}
EditDurations == {NoDuration, 0, 61, 90}
EditDates == {NoDate, 3}
CancelNotesInputs == {NoId, "no longer needed"}

NextEdit ==
    \/ \E req \in EditRequests, now \in Nows :
          HasCapacity(MaxEditRes) /\ CreateReservation(req, now)
    \/ \E a \in Admins, id \in EditIds, st \in Statuses, now \in Nows :
          UpdateStatus(a, id, st, now)
    \/ \E a \in Editors, id \in EditIds, p \in EditPurposes, n \in EditNotes,
          d \in EditDurations, rd \in EditDates : UpdateReservation(a, id, p, n, d, rd)
    \/ \E a \in Admins, id \in EditIds : Approve(a, id)
    \/ \E a \in Admins, id \in EditIds : Reject(a, id)
    \/ \E a \in Admins, id \in EditIds, now \in Nows : Start(a, id, now)
    \/ \E a \in Admins, id \in EditIds, now \in Nows : Complete(a, id, now)
    \/ \E a \in Users, id \in EditIds, n \in CancelNotesInputs : CancelNotes(a, id, n)
    \/ \E a \in Users, id \in EditIds : Delete(a, id)

SpecEdit == Init /\ [][NextEdit]_vars

\* SpecBalance: the student's balance is any of Balances, as left by the
\* defaults document or set by an administrator; the student books, starts
\* and closes one session.
Balances ==
    { <<h, m, sec>> : h \in {0, 2}, m \in {0, 30}, sec \in {0, 29, 30, 59} }

InitBalance ==
    /\ reservations = <<>>
    /\ inflight = EmptyBag
    /\ sessions = <<>>
    /\ remaining_time \in { [u \in Users |-> IF user_type[u] = "student" THEN b ELSE NoTime] :
                              b \in Balances }
    /\ resp = [op |-> "none", code |-> 0]
    /\ closing = EmptyBag
    /\ schedules = <<>>
    /\ view = NoView
    /\ configs = <<>>
    /\ triggers = EmptyBag
    /\ clock = 1
    /\ reservation_number = <<>>
    /\ generating = EmptyBag
    /\ InitAuth
    /\ starting = EmptyBag
    /\ InitStudents

BalanceRequest == Request("s1", "computer", "PC1", 2, <<9, 0>>, <<10, 0>>)

NextBalance ==
    \/ \E now \in Nows : HasCapacity(MaxBalanceRes) /\ CreateReservation(BalanceRequest, now)
    \/ \E a \in Admins : Approve(a, 1)
    \/ \E a \in Admins, now \in Nows : StartSession(a, 1, QuotaTimeIn, now)
    \/ \E a \in Admins, t \in QuotaTimeOuts, now \in Nows :
          BagCardinality(closing) < MaxLifecycleClosing /\ EndSession(a, 1, t, "completed", now)
    \/ \E c \in BagToSet(closing) : EndSessionSave(c)
    \/ \E c \in BagToSet(closing) : EndSessionFindUser(c)
    \/ \E c \in BagToSet(closing) : EndSessionUpdateUser(c)
    \/ \E c \in BagToSet(closing) : EndSessionComplete(c)

SpecBalance == InitBalance /\ [][NextBalance]_vars

\* SpecSchedule: class schedules created and updated, single and recurring,
\* on two days; at most MaxScheduleDocs documents are stored.
MaxScheduleDocs == 3

ScheduleDates == {1, 2}

ScheduleTimeslots == Timeslots \cup {<<<<8, 0>>, <<10, 0>>>>}

ScheduleIntervals == {NoId, "daily"}

ScheduleEndDates == {NoDate, 2}

ScheduleIds == 1..MaxScheduleDocs

\* The number of documents a request would insert.
occurrences(date, isRepeat, repeatInterval, repeatEndDate) ==
    IF isRepeat /\ repeatInterval # NoId /\ repeatEndDate # NoDate
    THEN Cardinality(datesToCheck(date, repeatInterval, repeatEndDate))
    ELSE 1

NextSchedule ==
    \/ \E d \in ScheduleDates, ts \in ScheduleTimeslots, r \in BOOLEAN,
          iv \in ScheduleIntervals, e \in ScheduleEndDates :
          /\ Len(schedules) + occurrences(d, r, iv, e) <= MaxScheduleDocs
          /\ CreateSchedule(d, ts, r, iv, e)
    \/ \E id \in ScheduleIds, d \in ScheduleDates, ts \in ScheduleTimeslots, r \in BOOLEAN,
          iv \in ScheduleIntervals, e \in ScheduleEndDates :
          /\ Len(schedules) + occurrences(d, r, iv, e) <= MaxScheduleDocs
          /\ UpdateSchedule(id, d, ts, r, iv, e)

SpecSchedule == Init /\ [][NextSchedule]_vars

\* SpecOverlap: the administrator and the faculty user book laboratory L1 on
\* one day over every pair of OverlapTimes (degenerate and reversed pairs
\* included, which the handlers refuse), and /check-conflicts is asked about
\* the same intervals.
MaxOverlapRes == 2

OverlapTimes == {<<8, 0>>, <<8, 30>>, <<9, 0>>, <<10, 0>>}

OverlapRequests ==
    { Request(a, "laboratory", "L1", ProbeDate, s, e) :
        a \in {"a1", "f1"}, s \in OverlapTimes, e \in OverlapTimes }

NextOverlap ==
    \/ \E req \in OverlapRequests, now \in Nows :
          HasCapacity(MaxOverlapRes) /\ CreateReservation(req, now)
    \/ \E req \in OverlapRequests, now \in Nows : CreateSave(req, now)
    \/ \E s \in OverlapTimes, e \in OverlapTimes :
          CheckConflicts("laboratory", ProbeDate, s, e)

SpecOverlap == Init /\ [][NextOverlap]_vars

\* SpecRate: forgot-password requests for the student, for the administrator
\* and for an unknown address, at the instants RateInstants; up to
\* MaxForgetting requests of the administrator are in progress at once.  A
\* request takes less than the two minutes between instants: the clock moves
\* to the next instant once no request is in progress.
MaxUserMails == 2
MaxAdminMails == 6
MaxForgetting == 2

RateInstants == {2, 4, 6, 8, 10, 71}

RateEmails == {"s1", "a1", NoAccount}

NextRate ==
    \/ \E email \in RateEmails :
          /\ email \in Users => Len(mails[email]) < MaxUserMails
          /\ email \in Admins =>
                /\ Len(mails[email]) + BagCardinality(forgetting) < MaxAdminMails
                /\ BagCardinality(forgetting) < MaxForgetting
          /\ ForgotPassword(email, "c1")
    \/ \E f \in BagToSet(forgetting) : ForgotPasswordSave(f)
    \/ \E t \in RateInstants :
          /\ forgetting = EmptyBag
          /\ \A x \in RateInstants : x > minute => t <= x
          /\ Tick(t)

SpecRate == Init /\ [][NextRate]_vars

\* SpecReset: credentials are requested for the student and the
\* administrator and presented to reset-password, before and after the OTP
\* has expired; up to MaxResetting resets of the administrator are in
\* progress at once and up to MaxResets resets are made for an account.  The build may run with strictQuery on or off.
MaxResetMails == 2
MaxResetting == 2
MaxResets == 2

ResetInstants == {5, 11}

ResetEmails == {"s1", "a1"}

Credentials == {"c1", "c2"}

NextReset ==
    \/ \E email \in ResetEmails, c \in Credentials :
          /\ Len(credentialMails(email)) + BagCardinality(forgetting) < MaxResetMails
          /\ ForgotPassword(email, c)
    \/ \E f \in BagToSet(forgetting) : ForgotPasswordSave(f)
    \/ \E email \in ResetEmails, c \in Credentials \cup {NoId}, strictQuery \in BOOLEAN :
          /\ BagCardinality(resetting) < MaxResetting
          /\ Len(changedMails(email)) + BagCardinality(resetting) < MaxResets
          /\ ResetPassword(email, c, "new", strictQuery)
    \/ \E r \in BagToSet(resetting) : ResetPasswordSave(r)
    \/ \E t \in ResetInstants :
          /\ forgetting = EmptyBag /\ resetting = EmptyBag
          /\ \A x \in ResetInstants : x > minute => t <= x
          /\ Tick(t)

SpecReset == Init /\ [][NextReset]_vars

\* ---------------------------------------------------------------- properties
\* The overlap law of two half-open minute intervals.
overlap(s1, e1, s2, e2) == s1 < e2 /\ s2 < e1

committed(r) == ~r.isDeleted /\ r.status \in {"approved", "active"}

sameResource(a, b) ==
    /\ a.reservation_type = b.reservation_type
    /\ a.computer_id = b.computer_id
    /\ a.laboratory_id = b.laboratory_id

doubleBooked(a, b) ==
    /\ committed(a) /\ committed(b)
    /\ sameResource(a, b)
    /\ a.reservation_date = b.reservation_date
    /\ overlap(timeToMinutes(a.start_time), timeToMinutes(a.end_time),
               timeToMinutes(b.start_time), timeToMinutes(b.end_time))

\* A committed reservation of `res` on the Room, date and interval of `req`.
committedOverlap(res, req) ==
    \E i \in DOMAIN res :
        /\ committed(res[i])
        /\ res[i].reservation_type = "laboratory"
        /\ res[i].laboratory_id = req.rid
        /\ res[i].reservation_date = req.reservation_date
        /\ overlap(timeToMinutes(req.start_time), timeToMinutes(req.end_time),
                   timeToMinutes(res[i].start_time), timeToMinutes(res[i].end_time))

\* C1: in every reachable state no two non-deleted reservations in status
\* approved or active on the same resource and date have overlapping intervals.
C1_NoDoubleBooking ==
    \A i, j \in DOMAIN reservations :
        i < j => ~doubleBooked(reservations[i], reservations[j])

\* A faculty laboratory reservation still approved by its own creation.
autoApproved(r) ==
    /\ userTypeOf(r.user_id) = "faculty"
    /\ r.reservation_type = "laboratory"
    /\ r.status = "approved"
    /\ r.approved_by = NoId

\* C2: the conflict check and the insert of a faculty laboratory creation are
\* atomic with respect to one another: whenever such a creation is persisted as
\* approved, no other such creation holds an overlapping interval of its Room
\* and date at that moment, so of two concurrent overlapping requests at most
\* one is persisted.
C2_AtomicCheckAndInsert ==
    [][ Len(reservations') = Len(reservations) + 1 =>
          LET r == reservations'[Len(reservations')]
          IN  autoApproved(r)
              => \A i \in DOMAIN reservations :
                    autoApproved(reservations[i]) => ~doubleBooked(reservations[i], r) ]_vars

\* C9: a successfully created reservation is approved with the creator as
\* approver when the creator is an admin, approved when a faculty user books a
\* laboratory, and pending in every other case.
C9_CreationStatus ==
    [][ Len(reservations') = Len(reservations) + 1 =>
          LET r == reservations'[Len(reservations')]
          IN  /\ resp' = [op |-> "create", code |-> 201]
              /\ IF userTypeOf(r.user_id) = "admin"
                 THEN r.status = "approved" /\ r.approved_by = r.user_id
                 ELSE IF userTypeOf(r.user_id) = "faculty" /\ r.reservation_type = "laboratory"
                 THEN r.status = "approved"
                 ELSE r.status = "pending" ]_vars

\* An admin's creation has just been stored, approved with the admin as
\* approver, on top of a committed reservation it overlaps.
C9_Witness ==
    /\ resp = [op |-> "create", code |-> 201]
    /\ Len(reservations) = 2
    /\ userTypeOf(reservations[2].user_id) = "admin"
    /\ reservations[2].approved_by = reservations[2].user_id
    /\ doubleBooked(reservations[1], reservations[2])

\* The well-formed requests the handler runs the conflict check for.
CheckedRequests == { req \in Requests : conflictChecked(req) /\ createValidate(req) = 0 }

\* C10: a faculty laboratory creation that overlaps a committed reservation of
\* its Room and date is answered 409 and stores, queues and changes nothing.
C10_ConflictRejected ==
    [][ \A req \in CheckedRequests, now \in Nows :
          (/\ committedOverlap(reservations, req)
           /\ CreateReservation(req, now))
          => /\ resp' = [op |-> "create", code |-> 409]
             /\ UNCHANGED <<reservations, inflight, sessions, remaining_time>> ]_vars

\* A creation has just been answered 409 while an active laboratory
\* reservation holds the Room.
C10_Witness ==
    /\ resp = [op |-> "create", code |-> 409]
    /\ \E i \in DOMAIN reservations :
          /\ reservations[i].status = "active"
          /\ reservations[i].reservation_type = "laboratory"
          /\ ~reservations[i].isDeleted

Terminal == {"rejected", "completed", "cancelled"}

\* C3: once a reservation is rejected, completed or cancelled, no operation
\* changes its status.
C3_TerminalIsFinal ==
    [][ \A i \in DOMAIN reservations :
          reservations[i].status \in Terminal
          => reservations'[i].status = reservations[i].status ]_vars

\* C4: a pending reservation moves next only to approved or rejected, never
\* in one operation to active, completed or cancelled.
C4_PendingNext ==
    [][ \A i \in DOMAIN reservations :
          reservations[i].status = "pending"
          => reservations'[i].status \in {"pending", "approved", "rejected"} ]_vars

\* C5: an existing reservation changes to approved or rejected only from
\* pending, and the change records the acting admin as approver.
C5_DecideOnlyPending ==
    [][ \A i \in DOMAIN reservations :
          (/\ reservations'[i].status \in {"approved", "rejected"}
           /\ reservations'[i].status # reservations[i].status)
          => /\ reservations[i].status = "pending"
             /\ reservations'[i].approved_by \in Admins ]_vars

\* C6: whenever a reservation moves to active it was approved, the operation
\* stamps started_at and the same operation creates its UsageSession with a
\* time-in.
C6_ActivationStartsSession ==
    [][ \A i \in DOMAIN reservations :
          (reservations'[i].status = "active" /\ reservations[i].status # "active")
          => /\ reservations[i].status = "approved"
             /\ reservations'[i].started_at \in Nows
             /\ Len(sessions') = Len(sessions) + 1
             /\ sessions'[Len(sessions')].reservation_id = i
             /\ sessions'[Len(sessions')].time_in # NoTime ]_vars

\* C7: a reservation becomes completed only from approved or active, with
\* completed_at stamped and no UsageSession of it left open.
C7_CompletionClosesSession ==
    [][ \A i \in DOMAIN reservations :
          (reservations'[i].status = "completed" /\ reservations[i].status # "completed")
          => /\ reservations[i].status \in {"approved", "active"}
             /\ reservations'[i].completed_at \in Nows
             /\ \A k \in DOMAIN sessions' :
                  sessions'[k].reservation_id = i => sessions'[k].status # "active" ]_vars

\* C8: a cancel request of a student or faculty user on a reservation owned by
\* another user is refused and leaves the reservation unchanged.
C8_CancelOnlyOwn ==
    [][ \A a \in Users, i \in DOMAIN reservations :
          (/\ ~reservations[i].isDeleted
           /\ reservations[i].user_id # a
           /\ Cancel(a, i))
          => /\ resp'.code \notin {200, 201}
             /\ reservations' = reservations ]_vars

\* A reservation that holds the resource <<reservation_type, rid>>: one made
\* on that resource itself or, for a computer, on the laboratory it stands in.
holdsResource(r, reservation_type, rid) ==
    IF reservation_type = "laboratory"
    THEN r.reservation_type = "laboratory" /\ r.laboratory_id = rid
    ELSE \/ r.reservation_type = "computer" /\ r.computer_id = rid
         \/ /\ r.reservation_type = "laboratory"
            /\ rid \in Computers
            /\ r.laboratory_id = computerLab[rid]

\* A committed reservation that holds the resource on `date` and overlaps the
\* interval from start_time to end_time.
committedHold(reservation_type, rid, date, start_time, end_time) ==
    \E i \in DOMAIN reservations :
        /\ committed(reservations[i])
        /\ holdsResource(reservations[i], reservation_type, rid)
        /\ reservations[i].reservation_date = date
        /\ overlap(timeToMinutes(start_time), timeToMinutes(end_time),
                   timeToMinutes(reservations[i].start_time),
                   timeToMinutes(reservations[i].end_time))

\* The step is the create handler answering `req` with 409.
rejectedWithConflict(req, now) ==
    /\ CreateReservation(req, now)
    /\ resp' = [op |-> "create", code |-> 409]
    /\ inflight' = inflight

\* The resources of one kind.
resourcesOfType(reservation_type) ==
    IF reservation_type = "laboratory" THEN Laboratories ELSE Computers

\* C11: a creation is rejected with a conflict only when a committed
\* reservation on the same resource (or, for a computer, on its laboratory)
\* overlaps it, and a conflict check reports a conflict only when that is so
\* for the resource the caller asks about: reservations held on another
\* laboratory or another computer never count.
C11_ConflictScope ==
    [][ /\ \A req \in CheckedRequests, now \in Nows :
              rejectedWithConflict(req, now)
              => committedHold(req.reservation_type, req.rid, req.reservation_date,
                               req.start_time, req.end_time)
        /\ \A t \in ReservationTypes, d \in Dates, iv \in CheckIntervals :
              (CheckConflicts(t, d, iv[1], iv[2]) /\ view'.has_conflicts)
              => \A rid \in resourcesOfType(t) : committedHold(t, rid, d, iv[1], iv[2]) ]_vars

\* The entry of the laboratory probe for the interval of `req` lists a
\* reservation.
probeReportsReservation(req, now) ==
    timeSlot(laboratoryProbeReservations(req.rid, req.reservation_date), TRUE,
             req.reservation_date, timeToMinutes(req.start_time),
             calculatedDurationOf(req), now).conflicting_reservations # {}

\* C12: a conflict-checked creation is rejected with 409 exactly when the
\* laboratory probe, evaluated on the same state for the same laboratory, date
\* and interval, reports the slot as conflicting with a committed reservation.
C12_CreateIffProbe ==
    [][ \A req \in CheckedRequests, now \in Nows :
          CreateReservation(req, now)
          => (rejectedWithConflict(req, now) <=> probeReportsReservation(req, now)) ]_vars

\* The reservations every probe of the current state lists as conflicting
\* with some slot.
probedConflicts(now) ==
    UNION { timeSlot(laboratoryProbeReservations(l, d), TRUE, d, m, dur, now).conflicting_reservations :
              l \in Laboratories, d \in Dates, dur \in {60}, m \in slotStarts(60) }
    \cup
    UNION { timeSlot(allReservations(c, d), TRUE, d, m, dur, now).conflicting_reservations :
              c \in Computers, d \in Dates, dur \in {60}, m \in slotStarts(60) }
    \cup
    UNION { timeSlot(computerReservations(computersOf(l), d) \cup laboratoryReservations(l, d),
                     FALSE, d, m, dur, now).conflicting_reservations :
              l \in {x \in Laboratories : computersOf(x) # {}}, d \in Dates,
              dur \in {60}, m \in slotStarts(60) }

\* C13: a pending reservation never makes a slot of any probe conflicting and
\* never causes a 409: every reservation a probe lists for a slot, and every
\* reservation a conflict check reports, is approved or active.
C13_PendingNeverBlocks ==
    /\ \A now \in Nows : \A i \in probedConflicts(now) : committed(reservations[i])
    /\ \A t \in ReservationTypes, d \in Dates, iv \in CheckIntervals :
          \A i \in checkReservationConflicts(reservations, d, iv[1],
                       timeToMinutes(iv[2]) - timeToMinutes(iv[1]), t, 0) :
              committed(reservations[i])

\* C14: every approved, non-deleted laboratory reservation makes each slot
\* that overlaps it unavailable in the probe of every computer of that
\* laboratory, and no probe of a laboratory lists a computer reservation.
C14_RoomBlocksWorkstations ==
    /\ \A i \in DOMAIN reservations, now \in Nows, dur \in {30, 60, 120} :
          ( /\ reservations[i].reservation_type = "laboratory"
            /\ reservations[i].status = "approved"
            /\ ~reservations[i].isDeleted )
          => \A c \in computersOf(reservations[i].laboratory_id), m \in slotStarts(dur) :
                overlap(m, m + dur, timeToMinutes(reservations[i].start_time),
                        timeToMinutes(reservations[i].end_time))
                => LET slot == timeSlot(allReservations(c, reservations[i].reservation_date),
                                        TRUE, reservations[i].reservation_date, m, dur, now)
                   IN  ~slot.is_available /\ i \in slot.conflicting_reservations
    /\ \A l \in Laboratories, d \in Dates, now \in Nows, dur \in {30, 60, 120, 540} :
          \A m \in slotStarts(dur) :
             \A i \in timeSlot(laboratoryProbeReservations(l, d), TRUE, d, m, dur,
                               now).conflicting_reservations :
                reservations[i].reservation_type = "laboratory"

\* A computer probe has just answered with a slot made unavailable by an
\* approved laboratory reservation, while a committed computer reservation
\* is stored as well.
C14_Witness ==
    /\ view.op = "computer-availability"
    /\ \E n \in DOMAIN view.time_slots : \E i \in view.time_slots[n].conflicting_reservations :
          /\ reservations[i].reservation_type = "laboratory"
          /\ reservations[i].status = "approved"
          /\ ~view.time_slots[n].is_available
    /\ \E j \in DOMAIN reservations :
          reservations[j].reservation_type = "computer" /\ committed(reservations[j])

\* Two minute intervals that meet in one boundary point only.
touching(s1, e1, s2, e2) == e1 = s2 \/ e2 = s1

\* The slots of every probe of the current state that list a reservation or a
\* class schedule whose interval only touches the slot.
touchingReported(ids, withSchedules, d, dur, now) ==
    { m \in slotStarts(dur) :
        LET slot == timeSlot(ids, withSchedules, d, m, dur, now)
        IN  \/ \E i \in slot.conflicting_reservations :
                 touching(m, m + dur, timeToMinutes(reservations[i].start_time),
                          timeToMinutes(reservations[i].end_time))
            \/ \E k \in slot.subject_conflicts :
                 touching(m, m + dur, parseTimeslot(schedules[k].timeslot)[1],
                          parseTimeslot(schedules[k].timeslot)[2]) }

\* No conflict check and no probe of the current state reports an interval
\* that shares only a boundary point with the one asked about.
C15_StateLaw ==
    /\ \A t \in ReservationTypes, d \in Dates, iv \in CheckIntervals :
          \A i \in checkReservationConflicts(reservations, d, iv[1],
                       timeToMinutes(iv[2]) - timeToMinutes(iv[1]), t, 0) :
             /\ overlap(timeToMinutes(iv[1]), timeToMinutes(iv[2]),
                        timeToMinutes(reservations[i].start_time),
                        timeToMinutes(reservations[i].end_time))
             /\ ~touching(timeToMinutes(iv[1]), timeToMinutes(iv[2]),
                          timeToMinutes(reservations[i].start_time),
                          timeToMinutes(reservations[i].end_time))
    /\ \A d \in Dates, now \in Nows, dur \in {60, 120} :
          /\ \A l \in Laboratories :
                touchingReported(laboratoryProbeReservations(l, d), TRUE, d, dur, now) = {}
          /\ \A c \in Computers :
                touchingReported(allReservations(c, d), TRUE, d, dur, now) = {}
          /\ \A l \in Laboratories :
                touchingReported(computerReservations(computersOf(l), d)
                                    \cup laboratoryReservations(l, d),
                                 FALSE, d, dur, now) = {}

\* C15: intervals that share only a boundary point are never reported as
\* conflicting: the conflict check and the three probes list only reservations
\* and class schedules with s1 < e2 and s2 < e1, and a class schedule is
\* refused exactly when such an overlap with a stored one exists.
C15_BoundaryNeverConflicts ==
    /\ []C15_StateLaw
    /\ [][ \A ts \in Timeslots :
              CreateSchedule(ProbeDate, ts, FALSE, NoId, NoDate)
              => ( resp'.code = 400
                   <=> \E k \in schedulesOn(ProbeDate) :
                          overlap(timeToMinutes(ts[1]), timeToMinutes(ts[2]),
                                  timeToMinutes(schedules[k].timeslot[1]),
                                  timeToMinutes(schedules[k].timeslot[2])) ) ]_vars

\* Back-to-back class schedules are stored and a laboratory probe has just
\* reported free the slot that starts where an approved reservation of that
\* laboratory ends.
C15_Witness ==
    /\ Len(schedules) = 2
    /\ view.op = "laboratory-availability"
    /\ view.duration_minutes = 60
    /\ \E i \in DOMAIN reservations, n \in DOMAIN view.time_slots :
          /\ committed(reservations[i])
          /\ reservations[i].reservation_type = "laboratory"
          /\ reservations[i].laboratory_id = view.target
          /\ reservations[i].reservation_date = view.date
          /\ view.time_slots[n].start_time = reservations[i].end_time
          /\ view.time_slots[n].conflicting_reservations = {}

\* ------------------------------------------------------------------ quota
\* C16: a close request that read the balance b of the holder and closes a
\* session of d minutes writes the balance max(0, b - d); it is answered 200
\* and leaves the session closed, also when d exceeds b.
C16_DebitFloorsAtZero ==
    [][\A c \in BagToSet(closing) :
          /\ EndSessionUpdateUser(c) =>
                parseTimeToMinutes(remaining_time'[c.doc.user_id]) =
                    (IF c.doc.duration > parseTimeToMinutes(c.user) THEN 0
                     ELSE parseTimeToMinutes(c.user) - c.doc.duration)
          /\ EndSessionComplete(c) =>
                /\ resp' = [op |-> "end-session", code |-> 200]
                /\ sessions'[c.id].status = "completed"
                /\ sessions'[c.id].time_out # NoTime]_vars

\* A session longer than the balance has been closed: the balance is zero.
C16_Witness ==
    /\ closing = EmptyBag
    /\ resp = [op |-> "end-session", code |-> 200]
    /\ remaining_time["s1"] = <<0, 0, 0>>
    /\ Len(sessions) = 1
    /\ sessions[1].user_id = "s1"
    /\ sessions[1].status = "completed"
    /\ sessions[1].duration > parseTimeToMinutes(InitialBalance)

\* C17: a session is debited once: no two close requests of one session have
\* both written the holder's balance.
C17_DebitOnce ==
    \A c1 \in BagToSet(closing), c2 \in BagToSet(closing) :
        /\ c1.id = c2.id
        /\ c1.pc = "complete" /\ debits(c1.user, c1.doc.duration)
        /\ c2.pc = "complete" /\ debits(c2.user, c2.doc.duration)
        => c1 = c2 /\ CopiesIn(c1, closing) = 1

\* C18: the debit of a close request is applied to the balance the holder has
\* when it is written, so that no debit of the same holder is lost.
C18_AtomicDebit ==
    [][\A c \in BagToSet(closing) :
          EndSessionUpdateUser(c) =>
              parseTimeToMinutes(remaining_time'[c.doc.user_id]) =
                  Max(0, parseTimeToMinutes(remaining_time[c.doc.user_id]) - c.doc.duration)]_vars

\* --------------------------------------------------------- semester reset
\* C19: within one semester of a configuration at most one call of the
\* semester update changes balances: no two calls that reset for the same
\* configuration and semester have both modified a balance.
C19_ResetOncePerSemester ==
    \A t1 \in BagToSet(triggers), t2 \in BagToSet(triggers) :
        /\ t1.id = t2.id /\ t1.current = t2.current
        /\ t1.pc = "return" /\ t1.updatedCount > 0
        /\ t2.pc = "return" /\ t2.updatedCount > 0
        => t1 = t2 /\ CopiesIn(t1, triggers) = 1

\* C20: a call whose bulk reset fails leaves the stored active_semester of its
\* configuration different from the semester it was resetting for, so that a
\* later call still finds the reset due.
C20_MarkerAfterReset ==
    [][\A t \in BagToSet(triggers) :
          UpdateManyFails(t) => configs'[t.id].active_semester # t.current]_vars

\* C21: whenever the stored active_semester of an active configuration moves
\* to a new semester, a reset of the student balances to the default follows:
\* the call that stored it goes on to its User.updateMany.
C21_ResetOnEveryTransition ==
    [][\A k \in DOMAIN configs :
          /\ configs'[k].is_active
          /\ configs'[k].active_semester # NoId
          /\ configs'[k].active_semester # configs[k].active_semester
          => \E t \in BagToSet(triggers') :
                t.id = k /\ t.current = configs'[k].active_semester /\ t.pc = "updateMany"]_vars

\* ------------------------------------------------------ reservation numbers
\* C22: stored reservation numbers are pairwise distinct, and a request whose
\* generated number collides with a stored one is never answered with an error.
C22_CollisionInvisible ==
    /\ [](\A i \in DOMAIN reservation_number, j \in DOMAIN reservation_number :
            i # j => reservation_number[i] # reservation_number[j])
    /\ [][\A g \in BagToSet(generating), now \in Nows :
            SaveNumbered(g, now) => resp'.code = 201]_vars

\* ------------------------------------------------------------------ editing
\* C23: PATCH /:id is answered 200 only for a pending, approved or active
\* reservation, and then changes nothing but purpose, notes, duration and
\* reservation_date, the duration staying within 1..480.
C23_EditOnlyNonTerminal ==
    [][\A a \in Editors, id \in EditIds, p \in EditPurposes, n \in EditNotes,
          d \in EditDurations, rd \in EditDates :
          UpdateReservation(a, id, p, n, d, rd) /\ resp'.code = 200 =>
              /\ reservations[id].status \in {"pending", "approved", "active"}
              /\ reservations'[id].duration \in 1..480
              /\ reservations'[id] =
                    [reservations[id] EXCEPT
                        !.purpose = reservations'[id].purpose,
                        !.notes = reservations'[id].notes,
                        !.duration = reservations'[id].duration,
                        !.reservation_date = reservations'[id].reservation_date]]_vars

\* C24: every stored reservation that is not deleted ends after it starts,
\* lasts between 1 and 480 minutes and has duration = end - start.
C24_IntervalInvariant ==
    \A i \in DOMAIN reservations :
        ~reservations[i].isDeleted =>
            /\ timeToMinutes(reservations[i].end_time) > timeToMinutes(reservations[i].start_time)
            /\ reservations[i].duration \in 1..480
            /\ reservations[i].duration =
                  timeToMinutes(reservations[i].end_time) - timeToMinutes(reservations[i].start_time)

\* C25: no step shortens the collection; DELETE /:id changes the isDeleted
\* flag of its reservation and nothing else; PATCH /:id/cancel changes status
\* and notes of its reservation and nothing else.
C25_NeverErased ==
    [][/\ Len(reservations') >= Len(reservations)
       /\ \A a \in Users, id \in EditIds :
             Delete(a, id) /\ found(id) =>
                reservations' = [reservations EXCEPT ![id].isDeleted = TRUE]
       /\ \A a \in Users, id \in EditIds, n \in CancelNotesInputs :
             CancelNotes(a, id, n) /\ found(id) =>
                reservations' = [reservations EXCEPT
                                    ![id].status = reservations'[id].status,
                                    ![id].notes = reservations'[id].notes]]_vars

\* A reservation that was approved by the admin, cancelled with a note and
\* then deleted is still stored.
C25_Witness ==
    /\ resp = [op |-> "delete", code |-> 200]
    /\ Len(reservations) = 1
    /\ reservations[1].isDeleted
    /\ reservations[1].status = "cancelled"
    /\ reservations[1].notes = "no longer needed"
    /\ reservations[1].approved_by = "a1"
    /\ reservations[1].user_id = "s1"

\* ------------------------------------------------------------ past creation
\* The well-formed requests whose date and start time lie before `now`.
PastRequests ==
    { req \in Requests :
        /\ createValidate(req) = 0
        /\ \E now \in Nows : combineDateAndTime(req.reservation_date, req.start_time) < now }

balanceSeconds(t) == t[1] * 3600 + t[2] * 60 + t[3]

secondsToBalance(n) == <<n \div 3600, (n % 3600) \div 60, n % 60>>

\* C27: the balance written after a session of d minutes is the balance the
\* request read minus d minutes, to the second, and zero when d exceeds it.
C27_ExactToTheSecond ==
    [][\A c \in BagToSet(closing) :
          EndSessionUpdateUser(c) =>
              remaining_time'[c.doc.user_id] =
                  secondsToBalance(Max(0, balanceSeconds(c.user) - c.doc.duration * 60))]_vars


\* C28: class schedules never overlap: after any sequence of create and
\* update operations no two stored occurrences on the same date have
\* overlapping timeslots.
\* Violated: PUT /subject-scheduler/:id stores the new date and timeslot
\* without looking at the other schedules of that date.
C28_NoOverlappingSchedules ==
    \A i, j \in DOMAIN schedules :
        i # j /\ schedules[i].date = schedules[j].date =>
            ~isOverlap(schedules[i].timeslot, schedules[j].timeslot)


\* The probes whose slots carry is_available: the laboratory probe and the
\* probe of one computer.
FlaggedProbes == {"laboratory-availability", "computer-availability"}

\* C29: in every availability probe response each slot is reported available
\* exactly when it is not past and its set of conflicting commitments (the
\* reservations and the class schedules listed for the slot) is empty.
C29_AvailableIffFree ==
    view.op \in FlaggedProbes =>
        \A n \in DOMAIN view.time_slots :
            LET slot == view.time_slots[n]
            IN  /\ slot.is_available <=>
                      /\ ~slot.is_past
                      /\ slot.conflicting_reservations = {}
                      /\ slot.subject_conflicts = {}
                /\ slot.has_conflict <=>
                      (slot.conflicting_reservations # {} \/ slot.subject_conflicts # {})

\* A probe of the day before ProbeDate, taken at 09:00 of that day: the
\* 08:00 slot is past, has no conflict and is reported unavailable, and a
\* later slot of the same response is available.
C29_Witness ==
    /\ view.op \in FlaggedProbes
    /\ \E n \in DOMAIN view.time_slots :
          /\ view.time_slots[n].is_past
          /\ view.time_slots[n].conflicting_reservations = {}
          /\ view.time_slots[n].subject_conflicts = {}
          /\ ~view.time_slots[n].is_available
    /\ \E n \in DOMAIN view.time_slots : view.time_slots[n].is_available


\* The three probes that answer with time_slots.
SlotProbes == FlaggedProbes \cup {"laboratory-computers"}

\* C30: for the window 08:00-17:00 and slot duration d the probe lists the
\* consecutive half-open slots [08:00 + k*d, 08:00 + (k+1)*d), k = 0, 1, ...:
\* the first starts at 08:00, each starts where the previous one ends and
\* lasts d minutes, none ends after 17:00, and no further slot would fit
\* after the last one; with d = 540 there is exactly one slot, 08:00-17:00.
C30_SlotEnumeration ==
    view.op \in SlotProbes =>
        LET d == view.duration_minutes
            slots == view.time_slots
        IN  /\ Len(slots) >= 1
            /\ slots[1].start_time = <<8, 0>>
            /\ \A n \in DOMAIN slots :
                  /\ timeToMinutes(slots[n].end_time) = timeToMinutes(slots[n].start_time) + d
                  /\ timeToMinutes(slots[n].end_time) <= 17 * 60
                  /\ n > 1 => slots[n].start_time = slots[n - 1].end_time
            /\ timeToMinutes(slots[Len(slots)].end_time) + d > 17 * 60
            /\ d = 540 => Len(slots) = 1 /\ slots[1].end_time = <<17, 0>>

\* A probe with 120-minute slots: four slots are listed, the last one ends at
\* 16:00 and the slot 16:00-18:00 is left out.
C30_Witness ==
    /\ view.op \in SlotProbes
    /\ view.duration_minutes = 120
    /\ Len(view.time_slots) = 4
    /\ view.time_slots[4].start_time = <<14, 0>>
    /\ view.time_slots[4].end_time = <<16, 0>>


\* The stored commitment a request for the interval start_time-end_time
\* leaves behind: what the administrator's creation stores.
commitmentOf(reservation_type, date, start_time, end_time) ==
    newReservation(Request("a1", reservation_type, "L1", date, start_time, end_time))

\* The decision with the roles exchanged: reservation i is the request and
\* the interval start_time-end_time is the only stored commitment.
reverseConflict(i, reservation_type, date, start_time, end_time) ==
    checkReservationConflicts(<<commitmentOf(reservation_type, date, start_time, end_time)>>,
        reservations[i].reservation_date, reservations[i].start_time,
        timeToMinutes(reservations[i].end_time) - timeToMinutes(reservations[i].start_time),
        reservations[i].reservation_type, 0) # {}

\* C31: the conflict decision is symmetric and reflexive.  Whenever
\* /check-conflicts has answered for an interval A, a committed reservation
\* B of that type and day is listed exactly when A, stored as a commitment,
\* would be reported to a request for B's interval; and a request for the
\* interval of any committed reservation reports that reservation itself.
C31_SymmetricReflexive ==
    /\ view.op = "check-conflicts" =>
          \A i \in DOMAIN reservations :
              /\ reservations[i].status \in {"approved", "active"}
              /\ ~reservations[i].isDeleted
              /\ reservations[i].reservation_type = view.reservation_type
              /\ reservations[i].reservation_date = view.date
              => (i \in view.conflicts <=>
                     reverseConflict(i, view.reservation_type, view.date,
                                     view.start_time, view.end_time))
    /\ view.op = "check-conflicts" =>
          \A i \in DOMAIN reservations :
              /\ reservations[i].status \in {"approved", "active"}
              /\ ~reservations[i].isDeleted
              /\ reservations[i].reservation_type = view.reservation_type
              /\ reservations[i].reservation_date = view.date
              /\ reservations[i].start_time = view.start_time
              /\ reservations[i].end_time = view.end_time
              => i \in view.conflicts

\* 08:30-10:00 is asked while 08:00-09:00 and 09:00-10:00 are committed:
\* both partially overlapping commitments are reported.
C31_Witness ==
    /\ view.op = "check-conflicts"
    /\ view.start_time = <<8, 30>> /\ view.end_time = <<10, 0>>
    /\ Len(reservations) = 2
    /\ reservations[1].start_time = <<8, 0>> /\ reservations[1].end_time = <<9, 0>>
    /\ reservations[2].start_time = <<9, 0>> /\ reservations[2].end_time = <<10, 0>>
    /\ view.conflicts = {1, 2}


\* C32: starting and ending a usage session are admin-only: a request of a
\* student or of a faculty user never starts a session, so every stored
\* session was started by an administrator.
\* Violated: both routes are guarded by authMiddleware, which lets every
\* authenticated account through.
C32_SessionsAdminOnly ==
    \A k \in DOMAIN sessions : sessions[k].approved_by \in Admins


\* C33: for one account a password-reset request is accepted only if at
\* least 2 minutes have passed since the previously accepted one, and at most
\* 5 are accepted within any one hour; a refused request issues no token and
\* no OTP.  A request is accepted when its mail, carrying the credential, is
\* sent.
\* Violated: the User schema has no field for the time and the count of the
\* last request, and two requests of an administrator that overlap both pass
\* the tests before either is stored.
C33_ResetRateLimited ==
    [][/\ \A e \in Actors :
             Len(credentialMails(e)') > Len(credentialMails(e)) =>
                LET m == mails'[e][Len(mails'[e])]
                    sent == credentialMails(e)
                IN  /\ \A k \in DOMAIN sent : m.at - sent[k].at >= 2
                    /\ Cardinality({ k \in DOMAIN sent : m.at - sent[k].at < 60 }) < 5
       /\ resp'.op = "forgot-password" /\ resp'.code = 429 => mails' = mails]_vars


\* C34: a password reset succeeds only with a credential that was issued for
\* that account and has not expired, and a credential authorizes one reset
\* only.  No account has had more successful resets (each one mails a notice)
\* than credentials mailed to it; a reset of an administrator passes its
\* tests, and a reset of a user is answered 200, only when the credential
\* presented was mailed to that account and has not outlived its lifetime.
\* Violated: two resets of an administrator that overlap are both stored with
\* the same OTP, and the token test of a user reset names paths the User
\* schema does not have.
C34_ResetNeedsFreshCredential ==
    /\ [](\A e \in Actors : Len(changedMails(e)) <= Len(credentialMails(e)))
    /\ [][/\ \A e \in Admins, c \in Credentials :
                (\E r \in BagToSet(resetting') :
                    /\ r.email = e /\ r.credential = c
                    /\ resetting' = resetting (+) SetToBag({r})) =>
                   \E k \in DOMAIN mails[e] :
                       /\ mails[e][k].credential = c
                       /\ minute < mails[e][k].at + otpLifetime
          /\ \A e \in Users, c \in Credentials, strictQuery \in BOOLEAN :
                ResetPassword(e, c, "new", strictQuery) /\ resp'.code = 200 =>
                   \E k \in DOMAIN mails[e] :
                       /\ mails[e][k].credential = c
                       /\ minute < mails[e][k].at + tokenLifetime]_vars


\* C35: a usage session with status active exists only for a reservation
\* whose status is active: none stays active after its reservation has been
\* completed or cancelled.
\* Violated: PATCH /reservations/:id/complete and /cancel write the
\* reservation only and leave its session as it is.
C35_ActiveSessionActiveReservation ==
    \A k \in DOMAIN sessions :
        sessions[k].status = "active" /\ ~sessions[k].isDeleted =>
            reservations[sessions[k].reservation_id].status = "active"

\* C36: a reservation has at most one usage session that is not deleted, also
\* when two start-session requests for it are in progress at the same time.
C36_OneSessionPerReservation ==
    \A j, k \in DOMAIN sessions :
        (/\ sessions[j].reservation_id = sessions[k].reservation_id
         /\ ~sessions[j].isDeleted /\ ~sessions[k].isDeleted) => j = k

\* The year level after `level` in one promotion.
nextYearLevel(level) ==
    CASE level = "1st year" -> "2nd year"
      [] level = "2nd year" -> "3rd year"
      [] OTHER -> "4th year"

\* C37: for one school year the promotion moves every student forward by
\* exactly one year level and suspends only the students who were in the 4th
\* year before it, and its updates run once per school year however often
\* the promotion is called after the year has ended.
C37_PromotionOneLevel ==
    [][\A t \in BagToSet(triggers) :
          PromoteUpdateMany(t) =>
              /\ configs[t.id].last_promotion_school_year # configs[t.id].school_year
              /\ \A u \in Users :
                    user_type[u] = "student" =>
                        /\ yearLevel'[u] = nextYearLevel(yearLevel[u])
                        /\ user_status'[u] = "suspended" <=> yearLevel[u] = "4th year"]_vars

\* The occurrences of a daily series from `date` to `repeatEndDate` that meet
\* a stored schedule of their date: the two timeslots share some minute.
seriesClashes(date, timeslot, repeatEndDate) ==
    { k \in DOMAIN schedules :
        /\ date <= schedules[k].date /\ schedules[k].date <= repeatEndDate
        /\ timeToMinutes(timeslot[1]) < timeToMinutes(schedules[k].timeslot[2])
        /\ timeToMinutes(schedules[k].timeslot[1]) < timeToMinutes(timeslot[2]) }

\* C38: creating a recurring class schedule is all-or-nothing: when an
\* occurrence of the series overlaps a stored schedule of its date the request
\* is answered 400 and no occurrence is stored, and otherwise every
\* occurrence of the series is stored.
C38_SeriesAllOrNothing ==
    [][\A d \in ScheduleDates, ts \in ScheduleTimeslots :
          CreateSchedule(d, ts, TRUE, "daily", 2) =>
              IF seriesClashes(d, ts, 2) # {}
              THEN resp'.code = 400 /\ schedules' = schedules
              ELSE /\ resp'.code = 201
                   /\ Len(schedules') = Len(schedules) + (2 - d + 1)
                   /\ \A x \in d..2 :
                         \E k \in DOMAIN schedules' :
                            /\ k > Len(schedules)
                            /\ schedules'[k].date = x /\ schedules'[k].timeslot = ts]_vars

\* A series from day 1 was refused: day 1 holds no schedule and day 2 holds
\* the one that an occurrence would overlap.
C38_Witness ==
    /\ resp = [op |-> "create-schedule", code |-> 400]
    /\ schedules # <<>>
    /\ \A k \in DOMAIN schedules : schedules[k].date = 2
    /\ \E ts \in ScheduleTimeslots : seriesClashes(1, ts, 2) # {}

\* C39: a soft-deleted reservation is not transitioned by any lifecycle
\* operation: no step changes a stored reservation whose isDeleted is set.
C39_DeletedNeverTransitions ==
    [][\A id \in DOMAIN reservations :
          reservations[id].isDeleted =>
              /\ id \in DOMAIN reservations'
              /\ reservations'[id] = reservations[id]]_vars

\* C40: at most one academic configuration is active at any time, across
\* every interleaving of create, update and activate.
C40_OneActiveConfig ==
    Cardinality({ k \in DOMAIN configs : configs[k].is_active }) <= 1

\* An activation has been answered with two configurations stored: the
\* second is the active one and the first is not.
C40_Witness ==
    /\ Len(configs) = 2
    /\ resp = [op |-> "activate", code |-> 200]
    /\ configs[2].is_active /\ ~configs[1].is_active

====
